---------------------------- MODULE Spec2Model ----------------------------
(***************************************************************************)
(* Context Indexing & Retrieval Engine (src/context/storage.ts and         *)
(* src/context/retrieval.ts) as a state machine.                           *)
(*                                                                         *)
(* The store is a LanceDB directory holding five tables.  Every exported   *)
(* operation is an async function; an action of this module is the code    *)
(* that runs between two awaits of one call (JavaScript runs it to         *)
(* completion), and the I/O that the await waits for takes effect when the *)
(* action that resumes the call fires.  Several calls can be in flight at  *)
(* once; they interleave at their awaits.                                  *)
(***************************************************************************)
EXTENDS Integers, Sequences, FiniteSets, TLC

VARIABLES
    tableNames,    \* names of the tables that exist in the store
    rows,          \* rows[c]: the rows of table c, in storage order
    dbConnection,  \* retrieval.ts module variable: the cached connection
    connectCalls,  \* number of connect() calls made by retrieval.ts getDB
    now,           \* the clock read by Date.now() / new Date()
    calls,         \* calls[k]: the call in flight (or finished) in slot k
    budget,        \* number of calls that may still be started
    project        \* the directories the CLI works in: files, package.json

vars ==
    <<tableNames, rows, dbConnection, connectCalls, now, calls, budget,
      project>>

----------------------------------------------------------------------------
(* Bounds of the model *)

\* calls in flight at once, in the specifications whose calls race
MaxCallers == 2
\* calls made by a process whose calls follow one another
MaxCalls == 3
\* calls made by a process whose calls race
MaxRacingCalls == 2
\* last reading of the clock
MaxClock == 1
\* lines of a document handed to a parser
MaxLines == 4
\* items of the longest one-section checklist handed to parseTodoMarkdown
MaxItems == 40
\* calls of the package.json utilities, one after the other
MaxMerges == 2
\* runs of `mao adopt` in one directory, one after the other
MaxRuns == 1
\* calls of the template utilities that may be in flight together
MaxCopies == 2
\* calls of `mao create` and of the package.json writers, in flight together
\* or one after the other
MaxCreates == 2

----------------------------------------------------------------------------
(* types.ts *)

PRD_SECTIONS == "prd_sections"
TODO_SNAPSHOTS == "todo_snapshots"
TODO_SECTIONS == "todo_sections"
JOURNAL_ENTRIES == "journal_entries"
SESSION_SUMMARIES == "session_summaries"

\* the five tables, in the order initializeVectorDB creates them
COLLECTIONS ==
    <<PRD_SECTIONS, TODO_SNAPSHOTS, TODO_SECTIONS, JOURNAL_ENTRIES,
      SESSION_SUMMARIES>>

CollectionNames == {COLLECTIONS[i] : i \in 1..Len(COLLECTIONS)}

DEFAULT_CONFIG == [dbPath |-> "./.lancedb"]

\* a config a caller passes instead of the default one
OtherConfig == [dbPath |-> "./other/.lancedb"]

\* `config: VectorDBConfig`, the last parameter of every operation
Configs == {DEFAULT_CONFIG, OtherConfig}

Null == "null"
Undefined == "undefined"

----------------------------------------------------------------------------
(* Sequence helpers *)

Range(s) == {s[i] : i \in 1..Len(s)}

Min2(a, b) == IF a < b THEN a ELSE b

Take(s, n) == SubSeq(s, 1, Min2(n, Len(s)))

RECURSIVE Filter(_, _)
\* the rows of s (in order) that belong to the set keep
Filter(s, keep) ==
    IF s = <<>> THEN <<>>
    ELSE (IF Head(s) \in keep THEN <<Head(s)>> ELSE <<>>) \o Filter(Tail(s), keep)

IsPrefix(s, t) == Len(s) <= Len(t) /\ SubSeq(t, 1, Len(s)) = s

----------------------------------------------------------------------------
(* JSON-encoded sub-fields and the embeddings provider *)

\* JSON.stringify of a structured value: an opaque string holding the value
JsonStringify(v) == [json |-> v]

\* JSON.parse of a string written by JSON.stringify
JsonParse(s) == s.json

\* the literal '[]' the placeholder rows carry
EmptyJsonArray == JsonStringify(<<>>)

\* new Array(config.embeddingDimensions).fill(0)
ZeroVector == 0

\* The embeddings provider: a fixed function from the text to a vector.
\* Vectors are points of a line; the text is the tuple of the strings that
\* the caller joins with "\n".
Embedding(text) ==
    CASE text[1] \in {"Intro", "Section 1: Setup", "Fixed bug"} -> 1
      [] text[1] \in {"project context", "Section 2: Build"} -> 2
      [] OTHER -> 3

Distance(u, v) == IF u < v THEN v - u ELSE u - v

----------------------------------------------------------------------------
(* Inputs handed to the operations by their callers *)

Timestamps == 0..MaxClock

PrdSections ==
    { [id |-> "prd.md-1", title |-> "Intro", content |-> "About",
       sectionNumber |-> "1", parentSection |-> Undefined],
      [id |-> "prd.md-2", title |-> "Usage", content |-> "How",
       sectionNumber |-> Undefined, parentSection |-> Undefined] }

TodoItems ==
    << [id |-> "1-1", description |-> "A", completed |-> FALSE],
       [id |-> "1-2", description |-> "B", completed |-> TRUE] >>

TodoStates ==
    { [timestamp |-> t,
       sections |-> << [sectionId |-> "1", name |-> "Setup",
                        items |-> TodoItems, completionPct |-> 50] >>,
       totalItems |-> 2, completedItems |-> 1, overallCompletionPct |-> 50]
      : t \in Timestamps }

SourceFiles == {"todo/tasks.md", "todo/other.md"}

\* what todoStateToIndexedSections builds for a section of sourceFile f
TodoSectionsIndexed ==
    { [id |-> f \o "-1", sectionId |-> "1", name |-> "Setup",
       content |-> "- [ ] A\n- [x] B", items |-> TodoItems,
       completionPct |-> 50, sourceFile |-> f] : f \in SourceFiles }
    \cup
    { [id |-> "todo/tasks.md-2", sectionId |-> "2", name |-> "Build",
       content |-> "", items |-> <<>>, completionPct |-> 0,
       sourceFile |-> "todo/tasks.md"] }

JournalEntries ==
    { [id |-> "journal-" \o ToString(t), timestamp |-> t,
       summary |-> "Fixed bug", content |-> "Details", topics |-> <<"db">>,
       workCompleted |-> <<"fix">>, openItems |-> <<>>] : t \in Timestamps }

SessionSummaries ==
    { [id |-> "session-" \o ToString(t), timestamp |-> t,
       summary |-> "Fixed bug", focusAreas |-> <<"db">>,
       nextSteps |-> <<>>] : t \in Timestamps }

PrdBatches ==
    LET p1 == CHOOSE p \in PrdSections : p.id = "prd.md-1"
        p2 == CHOOSE p \in PrdSections : p.id = "prd.md-2"
    IN  {<<>>, <<p1>>, <<p1, p2>>}

TodoBatches ==
    LET a1 == CHOOSE x \in TodoSectionsIndexed : x.id = "todo/tasks.md-1"
        a2 == CHOOSE x \in TodoSectionsIndexed : x.id = "todo/tasks.md-2"
        b1 == CHOOSE x \in TodoSectionsIndexed : x.id = "todo/other.md-1"
    IN  {<<>>, <<a1>>, <<a1, a2>>, <<b1>>, <<a1, b1>>}

Queries == {"project context"}

Limits == {1, 3}

----------------------------------------------------------------------------
(* storage.ts: the rows the write paths build *)

\* x || '' for an optional string field
OrEmpty(x) == IF x = Undefined THEN "" ELSE x

\* the schema placeholder row createTable is given for table c at time t
PlaceholderRow(c, t) ==
    CASE c = PRD_SECTIONS ->
           [id |-> "init", title |-> "init", content |-> "init",
            sectionNumber |-> "", parentSection |-> "", vector |-> ZeroVector]
      [] c = TODO_SNAPSHOTS ->
           [id |-> "init", timestamp |-> t, sections |-> EmptyJsonArray,
            totalItems |-> 0, completedItems |-> 0,
            overallCompletionPct |-> 0]
      [] c = TODO_SECTIONS ->
           [id |-> "init", sectionId |-> "init", name |-> "init",
            content |-> "init", items |-> EmptyJsonArray,
            completionPct |-> 0, sourceFile |-> "init",
            vector |-> ZeroVector]
      [] c = JOURNAL_ENTRIES ->
           [id |-> "init", timestamp |-> t, summary |-> "init",
            content |-> "init", topics |-> EmptyJsonArray,
            workCompleted |-> EmptyJsonArray, openItems |-> EmptyJsonArray,
            vector |-> ZeroVector]
      [] c = SESSION_SUMMARIES ->
           [id |-> "init", timestamp |-> t, summary |-> "init",
            focusAreas |-> EmptyJsonArray, nextSteps |-> EmptyJsonArray,
            vector |-> ZeroVector]

PrdEmbeddingText(section) == <<section.title, section.content>>

PrdRecord(section) ==
    [id |-> section.id, title |-> section.title, content |-> section.content,
     sectionNumber |-> OrEmpty(section.sectionNumber),
     parentSection |-> OrEmpty(section.parentSection),
     vector |-> Embedding(PrdEmbeddingText(section))]

\* the id of the snapshot row comes from the clock, its timestamp from the
\* state passed in
SnapshotRecord(state, t) ==
    [id |-> "todo-" \o ToString(t), timestamp |-> state.timestamp,
     sections |-> JsonStringify(state.sections),
     totalItems |-> state.totalItems,
     completedItems |-> state.completedItems,
     overallCompletionPct |-> state.overallCompletionPct]

TodoEmbeddingText(section) ==
    <<"Section " \o section.sectionId \o ": " \o section.name>> \o
    [i \in 1..Len(section.items) |->
        (IF section.items[i].completed THEN "[DONE] " ELSE "[TODO] ")
            \o section.items[i].description]

TodoSectionRecord(section) ==
    [id |-> section.id, sectionId |-> section.sectionId,
     name |-> section.name, content |-> section.content,
     items |-> JsonStringify(section.items),
     completionPct |-> section.completionPct,
     sourceFile |-> section.sourceFile,
     vector |-> Embedding(TodoEmbeddingText(section))]

JournalRecord(entry) ==
    [id |-> entry.id, timestamp |-> entry.timestamp,
     summary |-> entry.summary, content |-> entry.content,
     topics |-> JsonStringify(entry.topics),
     workCompleted |-> JsonStringify(entry.workCompleted),
     openItems |-> JsonStringify(entry.openItems),
     vector |-> Embedding(<<entry.summary, entry.content>>)]

SessionRecord(summary) ==
    [id |-> summary.id, timestamp |-> summary.timestamp,
     summary |-> summary.summary,
     focusAreas |-> JsonStringify(summary.focusAreas),
     nextSteps |-> JsonStringify(summary.nextSteps),
     vector |-> Embedding(<<summary.summary>>)]

\* (a bug: add as an upsert keyed by id, a row with a known id is replaced)
TableUpsert(stored, records) ==
    LET ids == {records[i].id : i \in 1..Len(records)}
    IN  Filter(stored, {r \in Range(stored) : r.id \notin ids}) \o records

\* (a bug: add in overwrite mode, the records replace the rows stored)
TableOverwrite(stored, records) == records

\* table.add(records): the records go after the rows already stored
TableAdd(stored, records) == stored \o records

\* (a bug: the delete predicate matches the section id column, so no row)
TableDeleteWrongColumn(stored, f) ==
    Filter(stored, {r \in Range(stored) : r.sectionId # f})

\* (a bug: the delete predicate is inverted and removes the other rows)
TableDeleteOthers(stored, f) ==
    Filter(stored, {r \in Range(stored) : r.sourceFile = f})

\* table.delete("sourceFile = '<f>'"); no source file of the model holds a
\* quote, so the predicate is the equality with f
TableDelete(stored, f) ==
    Filter(stored, {r \in Range(stored) : r.sourceFile # f})


----------------------------------------------------------------------------
(* Calls in flight *)

Callers == 1..MaxCallers

StorageOps ==
    {"initializeVectorDB", "indexPrdSections", "snapshotTodoState",
     "indexTodoSections", "reindexTodoSections", "storeJournalEntry",
     "storeSessionSummary"}

RetrievalOps ==
    {"queryPrdSections", "getCurrentTodoState", "queryJournalEntries",
     "getRecentSessions", "getContextBundle", "isVectorDBAvailable"}

NoLoc == [inner |-> FALSE, existingTables |-> {}, idx |-> 0, records |-> <<>>]

NoArg == [none |-> TRUE]

VoidResult == [tag |-> "void"]

Idle ==
    [op |-> "idle", pc |-> "idle", arg |-> NoArg, loc |-> NoLoc,
     out |-> "none", err |-> "none", res |-> VoidResult, tasks |-> <<>>,
     errs |-> <<>>]

\* the call returns to its caller
Returned(k) ==
    [k EXCEPT !.pc = "done", !.out = "returned", !.arg = NoArg, !.loc = NoLoc]

\* (a bug: the failure is caught and logged, and the call returns)
LoggedAndReturned(k, e) ==
    [k EXCEPT !.pc = "done", !.out = "returned", !.err = e, !.arg = NoArg,
              !.loc = NoLoc]

\* a storage.ts call has no try/catch: the rejected await rejects the call
Raised(k, e) ==
    [k EXCEPT !.pc = "done", !.out = "raised", !.err = e, !.arg = NoArg,
              !.loc = NoLoc]

SlotFree(c) == calls[c].pc \in {"idle", "done"}

\* the slots are interchangeable: a new call takes the first free one
FirstFree(c) == SlotFree(c) /\ \A d \in Callers : d < c => ~SlotFree(d)

\* a caller starts operation op; its code runs up to the first await, which
\* in every storage.ts operation is connect(config.dbPath)
Begin(c, op, arg) ==
    /\ FirstFree(c)
    /\ budget > 0
    /\ budget' = budget - 1
    /\ calls' = [calls EXCEPT ![c] =
                    [Idle EXCEPT !.op = op, !.pc = "connect", !.arg = arg,
                                 !.out = "pending"]]

----------------------------------------------------------------------------
(* storage.ts: the write paths *)

\* the table each write path opens
TargetTable(op) ==
    CASE op = "indexPrdSections" -> PRD_SECTIONS
      [] op = "snapshotTodoState" -> TODO_SNAPSHOTS
      [] op = "indexTodoSections" -> TODO_SECTIONS
      [] op = "reindexTodoSections" -> TODO_SECTIONS
      [] op = "storeJournalEntry" -> JOURNAL_ENTRIES
      [] op = "storeSessionSummary" -> SESSION_SUMMARIES

\* db.openTable(name) rejects when the store has no table of that name
OpenTableSucceeds(name, names) == name \in names

\* (a bug: openTable as open-or-create, a missing table comes to exist)
TablesAfterOpenOrCreate(name, names) == names \cup {name}

\* the tables of the store once db.openTable(name) has settled: openTable
\* creates none
TablesAfterOpen(name, names) == names

\* db.createTable(name, data) rejects when the table already exists
CreateTableSucceeds(name, names) == name \notin names

\* (a bug: the `if (!existingTables.includes(..))` guards are missing)
NextUnguarded(existingTables, i) ==
    IF i <= Len(COLLECTIONS) THEN i ELSE 0

\* the index in COLLECTIONS, from i on, of the first table that
\* existingTables does not include; 0 when there is none
NextMissing(existingTables, i) ==
    LET missing == {j \in i..Len(COLLECTIONS) : COLLECTIONS[j] \notin existingTables}
    IN  IF missing = {} THEN 0
        ELSE CHOOSE j \in missing : \A m \in missing : j <= m

\* initializeVectorDB from its i-th `if (!existingTables.includes(..))` on:
\* it either awaits the next createTable or returns
ContinueInitialize(k, i, t) ==
    LET j == NextMissing(k.loc.existingTables, i)
    IN  IF j = 0 THEN Returned(k)
        ELSE [k EXCEPT !.pc = "createTable", !.loc.idx = j,
                       !.loc.records = <<PlaceholderRow(COLLECTIONS[j], t)>>]

\* the sections whose embedding a batch operation awaits, then adds
BatchRecords(k) ==
    CASE k.op = "indexPrdSections" ->
           [i \in 1..Len(k.arg.sections) |-> PrdRecord(k.arg.sections[i])]
      [] k.op \in {"indexTodoSections", "reindexTodoSections"} ->
           [i \in 1..Len(k.arg.sections) |->
               TodoSectionRecord(k.arg.sections[i])]
      [] k.op = "storeJournalEntry" -> <<JournalRecord(k.arg.entry)>>
      [] k.op = "storeSessionSummary" -> <<SessionRecord(k.arg.summary)>>

\* the code a write path runs once its openTable has resolved
AfterOpenTable(k, t) ==
    CASE k.op = "snapshotTodoState" ->
           [k EXCEPT !.pc = "add",
                     !.loc.records = <<SnapshotRecord(k.arg.state, t)>>]
      [] k.op = "reindexTodoSections" /\ ~k.loc.inner ->
           [k EXCEPT !.pc = "delete"]
      [] OTHER -> [k EXCEPT !.pc = "embed"]

\* (a bug: the sections are never indexed again after the delete)
AfterDeleteReturns(k) == Returned(k)

\* reindexTodoSections once its delete has resolved: it calls
\* indexTodoSections (which connects again) when sections remain
AfterDelete(k) ==
    IF Len(k.arg.sections) > 0
    THEN [k EXCEPT !.pc = "connect", !.loc.inner = TRUE]
    ELSE Returned(k)

initializeVectorDB(c) ==
    /\ Begin(c, "initializeVectorDB", NoArg)
    /\ UNCHANGED <<tableNames, rows, dbConnection, connectCalls, now,
                 project>>

indexPrdSections(c) ==
    /\ \E sections \in PrdBatches :
          Begin(c, "indexPrdSections", [sections |-> sections])
    /\ UNCHANGED <<tableNames, rows, dbConnection, connectCalls, now,
                 project>>

snapshotTodoState(c) ==
    /\ \E state \in TodoStates :
          Begin(c, "snapshotTodoState", [state |-> state])
    /\ UNCHANGED <<tableNames, rows, dbConnection, connectCalls, now,
                 project>>

indexTodoSections(c) ==
    /\ \E sections \in TodoBatches :
          Begin(c, "indexTodoSections", [sections |-> sections])
    /\ UNCHANGED <<tableNames, rows, dbConnection, connectCalls, now,
                 project>>

reindexTodoSections(c) ==
    /\ \E sections \in TodoBatches,
          sourceFile \in SourceFiles :
          Begin(c, "reindexTodoSections",
                [sections |-> sections, sourceFile |-> sourceFile])
    /\ UNCHANGED <<tableNames, rows, dbConnection, connectCalls, now,
                 project>>

storeJournalEntry(c) ==
    /\ \E entry \in JournalEntries :
          Begin(c, "storeJournalEntry", [entry |-> entry])
    /\ UNCHANGED <<tableNames, rows, dbConnection, connectCalls, now,
                 project>>

storeSessionSummary(c) ==
    /\ \E summary \in SessionSummaries :
          Begin(c, "storeSessionSummary", [summary |-> summary])
    /\ UNCHANGED <<tableNames, rows, dbConnection, connectCalls, now,
                 project>>

\* `await connect(config.dbPath)` of a write path resolves or rejects
ConnectResolves(c) ==
    LET k == calls[c] IN
    /\ k.op \in StorageOps /\ k.pc = "connect"
    /\ \E ok \in BOOLEAN :
          calls' = [calls EXCEPT ![c] =
                      IF ~ok THEN Raised(k, "connect")
                      ELSE IF k.op = "initializeVectorDB"
                           THEN [k EXCEPT !.pc = "tableNames"]
                           ELSE [k EXCEPT !.pc = "openTable"]]
    /\ UNCHANGED <<tableNames, rows, dbConnection, connectCalls, now, budget,
                 project>>

\* `await db.tableNames()`
TableNamesResolves(c) ==
    LET k == calls[c] IN
    /\ k.op = "initializeVectorDB" /\ k.pc = "tableNames"
    /\ \E ok \in BOOLEAN :
          calls' = [calls EXCEPT ![c] =
                      IF ~ok THEN Raised(k, "tableNames")
                      ELSE ContinueInitialize(
                               [k EXCEPT !.loc.existingTables = tableNames],
                               1, now)]
    /\ UNCHANGED <<tableNames, rows, dbConnection, connectCalls, now, budget,
                 project>>

\* `await db.createTable(name, [placeholder])`
CreateTableResolves(c) ==
    LET k == calls[c]
        name == COLLECTIONS[k.loc.idx]
    IN
    /\ k.op = "initializeVectorDB" /\ k.pc = "createTable"
    /\ \E ok \in BOOLEAN :
          IF ok /\ CreateTableSucceeds(name, tableNames)
          THEN /\ tableNames' = tableNames \cup {name}
               /\ rows' = [rows EXCEPT ![name] = k.loc.records]
               /\ calls' = [calls EXCEPT ![c] =
                              ContinueInitialize(
                                  [k EXCEPT !.loc.records = <<>>],
                                  k.loc.idx + 1, now)]
          ELSE /\ calls' = [calls EXCEPT ![c] = Raised(k, "createTable")]
               /\ UNCHANGED <<tableNames, rows>>
    /\ UNCHANGED <<dbConnection, connectCalls, now, budget,
                 project>>

\* `await db.openTable(COLLECTIONS.X)` of a write path
OpenTableResolves(c) ==
    LET k == calls[c] IN
    /\ k.op \in StorageOps /\ k.pc = "openTable"
    /\ \E ok \in BOOLEAN :
          calls' = [calls EXCEPT ![c] =
                      IF ok /\ OpenTableSucceeds(TargetTable(k.op), tableNames)
                      THEN AfterOpenTable(k, now)
                      ELSE Raised(k, "openTable")]
    /\ tableNames' = TablesAfterOpen(TargetTable(k.op), tableNames)
    /\ UNCHANGED <<rows, dbConnection, connectCalls, now, budget,
                 project>>

\* (a bug: the sections whose embedding failed are left out, and the rest
\* of the batch is added)
AfterEmbeddingsSettled(k, failing) ==
    [k EXCEPT !.pc = "add",
              !.loc.records =
                 LET records == BatchRecords(k)
                 IN  Filter(records,
                            {records[i] : i \in DOMAIN records \ failing})]

\* a write path once `await Promise.all(sections.map(.. getEmbedding ..))`,
\* or its single `await getEmbedding(..)`, has settled; failing are the
\* sections whose embeddings call rejected.  Promise.all rejects as soon as
\* one of its promises rejects
AfterEmbeddings(k, failing) ==
    IF failing = {}
    THEN [k EXCEPT !.pc = "add", !.loc.records = BatchRecords(k)]
    ELSE Raised(k, "embed")

\* the embeddings calls of a write path settle; none is made for an empty
\* batch
EmbeddingsResolve(c) ==
    LET k == calls[c] IN
    /\ k.op \in StorageOps /\ k.pc = "embed"
    /\ \E failing \in SUBSET (1..Len(BatchRecords(k))) :
          calls' = [calls EXCEPT ![c] = AfterEmbeddings(k, failing)]
    /\ UNCHANGED <<tableNames, rows, dbConnection, connectCalls, now, budget,
                 project>>

\* `await table.add(records)`
AddResolves(c) ==
    LET k == calls[c]
        name == TargetTable(k.op)
    IN
    /\ k.op \in StorageOps /\ k.pc = "add"
    /\ \E ok \in BOOLEAN :
          IF ok /\ name \in tableNames
          THEN /\ rows' = [rows EXCEPT ![name] = TableAdd(@, k.loc.records)]
               /\ calls' = [calls EXCEPT ![c] =
                              Returned([k EXCEPT !.loc.records = <<>>])]
          ELSE /\ calls' = [calls EXCEPT ![c] = Raised(k, "add")]
               /\ UNCHANGED rows
    /\ UNCHANGED <<tableNames, dbConnection, connectCalls, now, budget,
                 project>>

\* `await table.delete("sourceFile = '...'")`
DeleteResolves(c) ==
    LET k == calls[c] IN
    /\ k.op = "reindexTodoSections" /\ k.pc = "delete"
    /\ \E ok \in BOOLEAN :
          IF ok
          THEN /\ rows' = [rows EXCEPT ![TODO_SECTIONS] =
                              TableDelete(@, k.arg.sourceFile)]
               /\ calls' = [calls EXCEPT ![c] = AfterDelete(k)]
          ELSE /\ calls' = [calls EXCEPT ![c] = Raised(k, "delete")]
               /\ UNCHANGED rows
    /\ UNCHANGED <<tableNames, dbConnection, connectCalls, now, budget,
                 project>>

----------------------------------------------------------------------------
(* retrieval.ts: the read paths *)

\* getDB: `if (!dbConnection)` decides whether this call connects
GetDBMustConnect(conn) == conn = Null

\* connect(config.dbPath): a connection to the store at that path
Connected(config) == config.dbPath

\* the store a connection reads: the one at the default path is the store
\* the write paths fill; the one at the other path was initialized and
\* never written to
StoreAt(conn) ==
    IF conn = DEFAULT_CONFIG.dbPath
    THEN [tableNames |-> tableNames, rows |-> rows]
    ELSE [tableNames |-> CollectionNames,
          rows |-> [name \in CollectionNames |-> <<PlaceholderRow(name, 0)>>]]

\* the table each read path opens
QueryTable(fn) ==
    CASE fn = "queryPrdSections" -> PRD_SECTIONS
      [] fn = "getCurrentTodoState" -> TODO_SNAPSHOTS
      [] fn = "queryJournalEntries" -> JOURNAL_ENTRIES
      [] fn = "getRecentSessions" -> SESSION_SUMMARIES

\* the read paths that embed the query and run a vector search
VectorQueries == {"queryPrdSections", "queryJournalEntries"}

\* table.query().limit(n).toArray(): a plain scan, which yields the rows
\* in storage order
Scan(stored, n) == Take(stored, n)

RECURSIVE Nearest(_, _, _)
\* table.vectorSearch(v).limit(n).toArray(): the n rows nearest to v,
\* nearest first (rows at the same distance in storage order)
Nearest(stored, v, n) ==
    IF n = 0 \/ stored = <<>> THEN <<>>
    ELSE LET best == CHOOSE i \in 1..Len(stored) :
                        \A j \in 1..Len(stored) :
                           \/ Distance(stored[i].vector, v)
                                 < Distance(stored[j].vector, v)
                           \/ /\ Distance(stored[i].vector, v)
                                    = Distance(stored[j].vector, v)
                              /\ i <= j
             rest == [j \in 1..(Len(stored) - 1) |->
                         IF j < best THEN stored[j] ELSE stored[j + 1]]
         IN  <<stored[best]>> \o Nearest(rest, v, n - 1)

\* `row.sectionNumber as string | undefined`: a cast, the stored string
PrdSectionOfRow(row) ==
    [id |-> row.id, title |-> row.title, content |-> row.content,
     sectionNumber |-> row.sectionNumber,
     parentSection |-> row.parentSection]

TodoStateOfRow(row) ==
    [timestamp |-> row.timestamp, sections |-> JsonParse(row.sections),
     totalItems |-> row.totalItems, completedItems |-> row.completedItems,
     overallCompletionPct |-> row.overallCompletionPct]

JournalEntryOfRow(row) ==
    [id |-> row.id, timestamp |-> row.timestamp, summary |-> row.summary,
     content |-> row.content, topics |-> JsonParse(row.topics),
     workCompleted |-> JsonParse(row.workCompleted),
     openItems |-> JsonParse(row.openItems)]

SessionSummaryOfRow(row) ==
    [id |-> row.id, timestamp |-> row.timestamp, summary |-> row.summary,
     focusAreas |-> JsonParse(row.focusAreas),
     nextSteps |-> JsonParse(row.nextSteps)]

ListResult(s) == [tag |-> "list", val |-> s]
NullResult == [tag |-> "null"]
BooleanResult(b) == [tag |-> "boolean", val |-> b]

\* (a bug: the catch block logs and returns nothing)
CatchLogsOnly(fn) == VoidResult

\* what the catch block of each read path returns
CatchValue(fn) ==
    CASE fn \in {"queryPrdSections", "queryJournalEntries",
                 "getRecentSessions"} -> ListResult(<<>>)
      [] fn = "getCurrentTodoState" -> NullResult
      [] fn = "isVectorDBAvailable" -> BooleanResult(FALSE)

\* what each read path returns once its search has resolved with the
\* rows of its table
QueryResult(fn, stored, query, limit) ==
    CASE fn = "queryPrdSections" ->
           LET results == Nearest(stored, Embedding(<<query>>), limit)
           IN  ListResult([i \in 1..Len(results) |-> PrdSectionOfRow(results[i])])
      [] fn = "queryJournalEntries" ->
           LET results == Nearest(stored, Embedding(<<query>>), limit)
           IN  ListResult([i \in 1..Len(results) |-> JournalEntryOfRow(results[i])])
      [] fn = "getRecentSessions" ->
           LET results == Scan(stored, limit)
           IN  ListResult([i \in 1..Len(results) |-> SessionSummaryOfRow(results[i])])
      [] fn = "getCurrentTodoState" ->
           LET results == Scan(stored, 1)
           IN  IF Len(results) = 0 THEN NullResult
               ELSE [tag |-> "TodoState", val |-> TodoStateOfRow(results[1])]

\* a read path (one call, or one of the four of a bundle) in flight, called
\* without a config: its config is the default one; db is the connection
\* getDB handed it
NewTask(fn, query, limit) ==
    [fn |-> fn, pc |-> "start", query |-> query, limit |-> limit,
     config |-> DEFAULT_CONFIG, db |-> Null,
     out |-> "pending", err |-> "none", res |-> VoidResult]

\* the read path called with a config of the caller's
WithConfig(t, config) == [t EXCEPT !.config = config]

TaskReturned(t, r) ==
    [t EXCEPT !.pc = "done", !.out = "returned", !.res = r]

\* (a bug: no try/catch, the rejected await rejects the read path)
TaskRejected(t, e) ==
    [t EXCEPT !.pc = "done", !.out = "raised", !.err = e]

\* the try/catch around the body of every read path
TaskCaught(t, e) ==
    [t EXCEPT !.pc = "done", !.out = "returned", !.err = e,
              !.res = CatchValue(t.fn)]

\* the code after `await getDB(config)`
AfterGetDB(t) ==
    IF t.fn = "isVectorDBAvailable"
    THEN TaskReturned(t, BooleanResult(TRUE))
    ELSE [t EXCEPT !.pc = "openTable"]

\* a read path from its call to its first await: getDB either starts a
\* connect or hands back the cached connection
StartTask(t, conn) ==
    IF GetDBMustConnect(conn) THEN [t EXCEPT !.pc = "connect"]
    ELSE AfterGetDB([t EXCEPT !.db = conn])

\* the four read paths getContextBundle hands to Promise.all
BundleTasks(query) ==
    << NewTask("getRecentSessions", query, 3),
       NewTask("getCurrentTodoState", query, 0),
       NewTask("queryPrdSections", query, 5),
       NewTask("queryJournalEntries", query, 3) >>

\* the value the operation returns from the results of its read paths
OperationResult(op, tasks) ==
    IF op = "getContextBundle"
    THEN [tag |-> "bundle",
          recentSessions |-> tasks[1].res,
          todoState |-> tasks[2].res,
          relevantPrd |-> tasks[3].res,
          journalEntries |-> tasks[4].res]
    ELSE tasks[1].res

\* the operation once its read paths have moved: Promise.all (or the
\* single await) resolves when all have returned and rejects when one
\* has raised
\* (errs keeps, for each read path, the await that failed in it)
Settle(k, tasks) ==
    LET errs == [i \in 1..Len(tasks) |-> tasks[i].err] IN
    IF \E i \in 1..Len(tasks) : tasks[i].out = "raised"
    THEN [Raised(k, "rejected") EXCEPT !.tasks = <<>>, !.errs = errs]
    ELSE IF \A i \in 1..Len(tasks) : tasks[i].out = "returned"
    THEN [Returned(k) EXCEPT !.res = OperationResult(k.op, tasks),
                             !.tasks = <<>>, !.errs = errs]
    ELSE [k EXCEPT !.tasks = tasks]

Connecting(tasks) == {i \in 1..Len(tasks) : tasks[i].pc = "connect"}

\* a caller starts a retrieval.ts operation: all its read paths run, one
\* after the other, up to their first await
BeginRetrieval(c, op, tasks) ==
    LET begun == [i \in 1..Len(tasks) |-> StartTask(tasks[i], dbConnection)]
    IN
    /\ FirstFree(c)
    /\ budget > 0
    /\ budget' = budget - 1
    /\ connectCalls' = connectCalls + Cardinality(Connecting(begun))
    /\ calls' = [calls EXCEPT ![c] =
                    Settle([Idle EXCEPT !.op = op, !.pc = "await",
                                        !.out = "pending"], begun)]
    /\ UNCHANGED <<tableNames, rows, dbConnection, now, project>>

queryPrdSections(c) ==
    \E query \in Queries, limit \in Limits :
        BeginRetrieval(c, "queryPrdSections",
                       <<NewTask("queryPrdSections", query, limit)>>)

getCurrentTodoState(c) ==
    BeginRetrieval(c, "getCurrentTodoState",
                   <<NewTask("getCurrentTodoState", "", 0)>>)

queryJournalEntries(c) ==
    \E query \in Queries, limit \in Limits :
        BeginRetrieval(c, "queryJournalEntries",
                       <<NewTask("queryJournalEntries", query, limit)>>)

getRecentSessions(c) ==
    \E limit \in Limits :
        BeginRetrieval(c, "getRecentSessions",
                       <<NewTask("getRecentSessions", "", limit)>>)

getContextBundle(c) ==
    \E query \in Queries :
        BeginRetrieval(c, "getContextBundle", BundleTasks(query))

isVectorDBAvailable(c) ==
    BeginRetrieval(c, "isVectorDBAvailable",
                   <<NewTask("isVectorDBAvailable", "", 0)>>)

\* queryPrdSections(query, limit, config) with a config of the caller's
queryPrdSectionsWithConfig(c) ==
    /\ budget > 0
    /\ \E query \in Queries, limit \in Limits, config \in Configs :
          BeginRetrieval(c, "queryPrdSections",
                         <<WithConfig(NewTask("queryPrdSections", query, limit),
                                      config)>>)

\* getRecentSessions(limit, config) with a config of the caller's
getRecentSessionsWithConfig(c) ==
    /\ budget > 0
    /\ \E limit \in Limits, config \in Configs :
          BeginRetrieval(c, "getRecentSessions",
                         <<WithConfig(NewTask("getRecentSessions", "", limit),
                                      config)>>)

\* read path i of call c moves to t
MoveTask(c, i, t) ==
    calls' = [calls EXCEPT ![c] =
                 Settle(calls[c], [calls[c].tasks EXCEPT ![i] = t])]

\* `dbConnection = await connect(config.dbPath)` in getDB resolves
GetDBResolves(c, i) ==
    /\ i \in 1..Len(calls[c].tasks)
    /\ calls[c].tasks[i].pc = "connect"
    /\ \E ok \in BOOLEAN :
          IF ok
          THEN /\ dbConnection' = Connected(calls[c].tasks[i].config)
               /\ MoveTask(c, i,
                      AfterGetDB([calls[c].tasks[i] EXCEPT
                                     !.db = Connected(calls[c].tasks[i].config)]))
          ELSE /\ MoveTask(c, i, TaskCaught(calls[c].tasks[i], "connect"))
               /\ UNCHANGED dbConnection
    /\ UNCHANGED <<tableNames, rows, connectCalls, now, budget,
                 project>>

\* `await db.openTable(COLLECTIONS.X)` of a read path
QueryOpenTableResolves(c, i) ==
    /\ i \in 1..Len(calls[c].tasks)
    /\ calls[c].tasks[i].pc = "openTable"
    /\ LET t == calls[c].tasks[i] IN
       \E ok \in BOOLEAN :
          MoveTask(c, i,
              IF ok /\ OpenTableSucceeds(QueryTable(t.fn),
                                         StoreAt(t.db).tableNames)
              THEN [t EXCEPT !.pc = IF t.fn \in VectorQueries
                                    THEN "embed" ELSE "search"]
              ELSE TaskCaught(t, "openTable"))
    /\ tableNames' =
          TablesAfterOpen(QueryTable(calls[c].tasks[i].fn), tableNames)
    /\ UNCHANGED <<rows, dbConnection, connectCalls, now, budget,
                 project>>

\* `await getEmbedding(query, config)` of a read path
QueryEmbeddingResolves(c, i) ==
    /\ i \in 1..Len(calls[c].tasks)
    /\ calls[c].tasks[i].pc = "embed"
    /\ LET t == calls[c].tasks[i] IN
       \E ok \in BOOLEAN :
          MoveTask(c, i, IF ok THEN [t EXCEPT !.pc = "search"]
                         ELSE TaskCaught(t, "embed"))
    /\ UNCHANGED <<tableNames, rows, dbConnection, connectCalls, now, budget,
                 project>>

\* `await table....limit(n).toArray()` of a read path
SearchResolves(c, i) ==
    /\ i \in 1..Len(calls[c].tasks)
    /\ calls[c].tasks[i].pc = "search"
    /\ LET t == calls[c].tasks[i] IN
       \E ok \in BOOLEAN :
          MoveTask(c, i,
              IF ok /\ QueryTable(t.fn) \in StoreAt(t.db).tableNames
              THEN TaskReturned(t, QueryResult(t.fn,
                                               StoreAt(t.db).rows[QueryTable(t.fn)],
                                               t.query, t.limit))
              ELSE TaskCaught(t, "search"))
    /\ UNCHANGED <<tableNames, rows, dbConnection, connectCalls, now, budget,
                 project>>

----------------------------------------------------------------------------
(* storage.ts: the parsers.  A text is the sequence of its characters.    *)

\* the characters of the alphabet that \s matches
WhiteSpace == {" ", "\t", "\n", "\r"}

\* the characters `.` does not match
LineTerminators == {"\n", "\r"}

\* the characters \d matches
Digits == {"0", "1", "2", "3", "4", "5", "6", "7", "8", "9"}

\* the largest member of a non-empty set of numbers
Max(S) == CHOOSE n \in S : \A m \in S : m <= n

RECURSIVE Run(_, _, _)
\* how many characters of s, from position from on, lie in class
Run(s, from, class) ==
    IF from > Len(s) \/ s[from] \notin class THEN 0
    ELSE 1 + Run(s, from + 1, class)

RECURSIVE Split(_)
\* content.split('\n')
Split(content) ==
    LET at == {i \in 1..Len(content) : content[i] = "\n"} IN
    IF at = {} THEN <<content>>
    ELSE LET i == CHOOSE i \in at : \A j \in at : i <= j
         IN  <<SubSeq(content, 1, i - 1)>>
                \o Split(SubSeq(content, i + 1, Len(content)))

RECURSIVE Join(_)
\* lines.join('\n')
Join(lines) ==
    IF lines = <<>> THEN <<>>
    ELSE IF Len(lines) = 1 THEN lines[1]
    ELSE lines[1] \o <<"\n">> \o Join(Tail(lines))

\* text.trim()
Trim(text) ==
    LET lead == Run(text, 1, WhiteSpace)
        inside == {i \in 1..Len(text) : text[i] \notin WhiteSpace}
    IN  IF inside = {} THEN <<>> ELSE SubSeq(text, lead + 1, Max(inside))

NoMatch == [matched |-> FALSE]

\* line.match(/^(#{1,3})\s+(.+)/): the regular expression takes as many
\* '#' as it can (three at most), then as much white space as it can, and
\* backs off until a character is left for `.+`, which runs up to the end
\* of the line or the first line terminator
HeaderMatch(line) ==
    LET fits == {hs \in (1..3) \X (1..Len(line)) :
                    /\ hs[1] + hs[2] < Len(line)
                    /\ \A i \in 1..hs[1] : line[i] = "#"
                    /\ \A i \in (hs[1] + 1)..(hs[1] + hs[2]) :
                          line[i] \in WhiteSpace
                    /\ line[hs[1] + hs[2] + 1] \notin LineTerminators}
    IN  IF fits = {} THEN NoMatch
        ELSE LET h == Max({hs[1] : hs \in fits})
                 sp == Max({hs[2] : hs \in {x \in fits : x[1] = h}})
                 from == h + sp + 1
                 n == Run(line, from, {line[i] : i \in 1..Len(line)}
                                          \ LineTerminators)
             IN  [matched |-> TRUE, marker |-> SubSeq(line, 1, h),
                  title |-> SubSeq(line, from, from + n - 1)]

\* the variables of parseMarkdownSections before its loop; currentSection
\* is <<>> for null and <<section>> otherwise
MarkdownStart ==
    [sections |-> <<>>, currentSection |-> <<>>, currentContent |-> <<>>,
     sectionIndex |-> 0]

\* (a bug: the section is saved whether or not its content is empty)
SavedAlways(st) ==
    IF st.currentSection = <<>> THEN st.sections
    ELSE Append(st.sections,
                [st.currentSection[1] EXCEPT
                    !.content = Trim(Join(st.currentContent))])

\* "Save previous section" / "Save last section": the sections once the
\* open section, if there is one, is closed
Saved(st) ==
    IF st.currentSection = <<>> THEN st.sections
    ELSE LET content == Trim(Join(st.currentContent))
         IN  IF content # <<>>
             THEN Append(st.sections,
                         [st.currentSection[1] EXCEPT !.content = content])
             ELSE st.sections

\* (a bug: the section is numbered by its place among the sections saved)
IndexAtEmission(st) == Len(Saved(st)) + 1

\* sectionIndex++
NextSectionIndex(st) == st.sectionIndex + 1

\* the body of the loop of parseMarkdownSections, for one line
MarkdownLine(st, line, filename) ==
    LET headerMatch == HeaderMatch(line)
        sectionIndex == NextSectionIndex(st)
    IN  IF headerMatch.matched
        THEN [sections |-> Saved(st),
              currentSection |->
                 << [id |-> filename \o "-" \o ToString(sectionIndex),
                     title |-> headerMatch.title,
                     content |-> <<>>,
                     sectionNumber |-> ToString(sectionIndex),
                     parentSection |-> Undefined] >>,
              currentContent |-> <<>>,
              sectionIndex |-> sectionIndex]
        ELSE IF st.currentSection # <<>>
        THEN [st EXCEPT !.currentContent = Append(@, line)]
        ELSE st

RECURSIVE MarkdownLoop(_, _, _)
\* for (const line of lines) { .. }
MarkdownLoop(st, lines, filename) ==
    IF lines = <<>> THEN st
    ELSE MarkdownLoop(MarkdownLine(st, Head(lines), filename), Tail(lines),
                      filename)

\* parseMarkdownSections(content, filename), as a function
MarkdownSections(content, filename) ==
    Saved(MarkdownLoop(MarkdownStart, Split(content), filename))

\* the lines the documents handed to parseMarkdownSections are made of
MarkdownLines ==
    { <<"#", " ", "A">>,
      <<"#", "#", " ", " ", "B", " ">>,
      <<"#", "#", "#", "\t", "C">>,
      <<"#", "#", "#", "#", " ", "D">>,
      <<"#", "E">>,
      <<"#", " ", " ">>,
      <<" ", "#", " ", "F">>,
      <<"t", " ">>,
      <<" ", "\t">>,
      <<>> }

\* the texts of at most n lines drawn from the set lines
Documents(lines, n) ==
    {Join(d) : d \in UNION {[1..k -> lines] : k \in 1..n}}

\* the documents handed to parseMarkdownSections: short ones of lines of
\* every kind, and longer ones of headings, text and empty lines
MarkdownDocuments ==
    Documents(MarkdownLines, MaxLines)
    \cup Documents({<<"#", " ", "A">>, <<"t", " ">>, <<>>}, MaxLines + 2)

\* a caller calls a parser, which runs to its end without awaiting; the
\* call keeps its arguments next to what it returned
Parsed(c, op, arg, res) ==
    /\ FirstFree(c)
    /\ budget > 0
    /\ budget' = budget - 1
    /\ calls' = [calls EXCEPT ![c] =
                    [Idle EXCEPT !.op = op, !.pc = "done", !.arg = arg,
                                 !.out = "returned", !.res = res]]
    /\ UNCHANGED <<tableNames, rows, dbConnection, connectCalls, now,
                 project>>

parseMarkdownSections(c) ==
    /\ budget > 0
    /\ \E content \in MarkdownDocuments,
          filename \in {"prd.md"} :
           Parsed(c, "parseMarkdownSections",
                  [content |-> content, filename |-> filename],
                  [tag |-> "sections",
                   val |-> MarkdownSections(content, filename)])

\* the text of line from position from up to its end or the first line
\* terminator: what a last `(.+)` of a pattern captures
DotPlus(line, from) ==
    SubSeq(line, from,
           from + Run(line, from,
                      {line[i] : i \in 1..Len(line)} \ LineTerminators) - 1)

\* `.+` can match at position i of the line
Follows(line, i) == i <= Len(line) /\ line[i] \notin LineTerminators

\* the ways `\.?` can match at position i: zero or one character
Dot(line, i) == IF i <= Len(line) /\ line[i] = "." THEN {0, 1} ELSE {0}

\* the ways `(\d+\.?\d*\.?)\s*` can match at position p with a character
\* left for `.+`: the lengths <<digits, dot, digits, dot, white space>>
TokenFits(line, p) ==
    UNION {UNION {UNION {UNION {
        {<<d1, p1, d2, p2, sp>> :
            sp \in {x \in 0..Run(line, p + d1 + p1 + d2 + p2, WhiteSpace) :
                       Follows(line, p + d1 + p1 + d2 + p2 + x)}}
        : p2 \in Dot(line, p + d1 + p1 + d2)}
        : d2 \in 0..Run(line, p + d1 + p1, Digits)}
        : p1 \in Dot(line, p + d1)}
        : d1 \in 1..Run(line, p, Digits)}

\* the ways `\s*` can match at position p with a character left for `.+`
BareFits(line, p) ==
    {x \in 0..Run(line, p, WhiteSpace) : Follows(line, p + x)}

\* the match a backtracking matcher finds first: each quantifier, from
\* left to right, as long as a match allows
Greediest(fits, base) ==
    LET rank(t) == (((t[1] * base + t[2]) * base + t[3]) * base + t[4]) * base
                      + t[5]
    IN  CHOOSE t \in fits : \A u \in fits : rank(u) <= rank(t)

\* line.match(/^#{2,3}\s+(\d+\.?\d*\.?)?\s*(.+)/); token is <<>> when the
\* optional group did not take part in the match
SectionMatch(line) ==
    LET h == Run(line, 1, {"#"})
        fits == {sp \in 1..Run(line, h + 1, WhiteSpace) :
                    \/ TokenFits(line, h + sp + 1) # {}
                    \/ BareFits(line, h + sp + 1) # {}}
    IN  IF h \notin {2, 3} \/ fits = {} THEN NoMatch
        ELSE LET p == h + Max(fits) + 1
                 tokens == TokenFits(line, p)
             IN
             IF tokens # {}
             THEN LET t == Greediest(tokens, Len(line) + 2)
                      len == t[1] + t[2] + t[3] + t[4]
                  IN  [matched |-> TRUE,
                       token |-> <<SubSeq(line, p, p + len - 1)>>,
                       name |-> DotPlus(line, p + len + t[5])]
             ELSE [matched |-> TRUE, token |-> <<>>,
                   name |-> DotPlus(line, p + Max(BareFits(line, p)))]

\* line.match(/^\s*-\s*\[([ xX])\]\s*(.+)/)
TodoMatch(line) ==
    LET dash == Run(line, 1, WhiteSpace) + 1
        open == dash + 1 + Run(line, dash + 1, WhiteSpace)
        after == open + 3
    IN  IF /\ open + 2 <= Len(line)
           /\ line[dash] = "-"
           /\ line[open] = "["
           /\ line[open + 1] \in {" ", "x", "X"}
           /\ line[open + 2] = "]"
           /\ BareFits(line, after) # {}
        THEN [matched |-> TRUE, mark |-> line[open + 1],
              description |->
                 DotPlus(line, after + Max(BareFits(line, after)))]
        ELSE NoMatch

\* todoMatch[1].toLowerCase() === 'x'
Completed(mark) == mark \in {"x", "X"}

\* the decimal digits of a number, as `${n}` writes them
DigitOf(n) == ToString(n)

RECURSIVE Decimal(_)
Decimal(n) ==
    IF n < 10 THEN <<DigitOf(n)>>
    ELSE Decimal(n \div 10) \o <<DigitOf(n % 10)>>

\* sectionMatch[1]?.replace(/\.$/, '')
StripDot(token) ==
    IF token[Len(token)] = "." THEN SubSeq(token, 1, Len(token) - 1)
    ELSE token

\* `section-${n}`
FallbackId(n) == <<"s", "e", "c", "t", "i", "o", "n", "-">> \o Decimal(n)

RECURSIVE Pow2(_)
Pow2(n) == IF n = 0 THEN 1 ELSE 2 * Pow2(n - 1)

RECURSIVE Pow2Mod(_, _)
\* 2^n modulo t
Pow2Mod(n, t) == IF n = 0 THEN 1 % t ELSE (2 * Pow2Mod(n - 1, t)) % t

\* round(100 * completed / total), halves upwards, in exact arithmetic
HalfUp(completed, total) == (200 * completed + total) \div (2 * total)

\* The two roundings of (completed / total) * 100 in IEEE double
\* arithmetic take the product below a half that 100 * completed / total
\* hits exactly.  With completed / total in [2^-m, 2^(1-m)), the quotient
\* is rounded to a multiple of 2^-(52+m): it is rounded down, by
\* r / (total * 2^(52+m)), when the remainder r of completed * 2^(52+m)
\* by total is under total / 2.  A hundred times that is more than half
\* the gap between the doubles next to the product (2^(E-52), for a
\* product in [2^E, 2^(E+1)), where E + m is 6 or 7) when
\* 200 * r > total * 2^(E+m), and then the product is a double under the
\* half.  In no other case does a rounding cross a half or an integer.
DoubleFallsShort(completed, total) ==
    /\ completed > 0
    /\ (200 * completed) % total = 0
    /\ ((200 * completed) \div total) % 2 = 1
    /\ LET m == CHOOSE k \in 0..total :
                   /\ completed * Pow2(k) >= total
                   /\ \A j \in 0..(k - 1) : completed * Pow2(j) < total
           r == (completed * Pow2Mod(52 + m, total)) % total
           gap == IF 25 * completed * Pow2(m) < 32 * total THEN 64 ELSE 128
       IN  r > 0 /\ 2 * r < total /\ 200 * r > total * gap

\* total > 0 ? Math.round((completed / total) * 100) : 0
Percent(completed, total) ==
    IF total > 0
    THEN IF DoubleFallsShort(completed, total)
         THEN HalfUp(completed, total) - 1
         ELSE HalfUp(completed, total)
    ELSE 0

\* currentSection.items.filter((i) => i.completed).length
CompletedOf(items) ==
    Cardinality({i \in 1..Len(items) : items[i].completed})

\* the variables of parseTodoMarkdown before its loop
TodoStart ==
    [sections |-> <<>>, currentSection |-> <<>>, totalItems |-> 0,
     completedItems |-> 0]

\* the sections once the open section, if there is one, has got its
\* completionPct and is pushed
Pushed(st) ==
    IF st.currentSection = <<>> THEN st.sections
    ELSE LET section == st.currentSection[1]
         IN  Append(st.sections,
                    [section EXCEPT !.completionPct =
                        Percent(CompletedOf(section.items),
                                Len(section.items))])

\* (a bug: an item met before any heading opens a section of its own)
AttachedOrImplicit(current, item) ==
    IF current = <<>>
    THEN << [sectionId |-> FallbackId(1), name |-> <<>>, items |-> <<item>>,
             completionPct |-> 0] >>
    ELSE << [current[1] EXCEPT !.items = Append(@, item)] >>

\* currentSection.items.push(item), which `todoMatch && currentSection`
\* guards
Attached(current, item) ==
    IF current = <<>> THEN <<>>
    ELSE << [current[1] EXCEPT !.items = Append(@, item)] >>

\* (a bug: the counters are stepped outside the `currentSection` guard)
CountedAlways(current) == TRUE

\* whether totalItems++ and completedItems++ are reached
Counted(current) == current # <<>>

\* the body of the loop of parseTodoMarkdown, for one line
TodoLine(st, line) ==
    LET sectionMatch == SectionMatch(line)
        todoMatch == TodoMatch(line)
    IN  IF sectionMatch.matched
        THEN LET sections == Pushed(st) IN
             [st EXCEPT
                !.sections = sections,
                !.currentSection =
                   << [sectionId |->
                          IF sectionMatch.token # <<>>
                             /\ StripDot(sectionMatch.token[1]) # <<>>
                          THEN StripDot(sectionMatch.token[1])
                          ELSE FallbackId(Len(sections) + 1),
                       name |-> Trim(sectionMatch.name),
                       items |-> <<>>,
                       completionPct |-> 0] >>]
        ELSE IF todoMatch.matched
        THEN LET completed == Completed(todoMatch.mark)
                 item ==
                    [id |-> IF st.currentSection = <<>> THEN <<>>
                            ELSE st.currentSection[1].sectionId \o <<"-">>
                                 \o Decimal(Len(st.currentSection[1].items) + 1),
                     description |-> Trim(todoMatch.description),
                     completed |-> completed]
             IN  [st EXCEPT
                    !.currentSection = Attached(@, item),
                    !.totalItems =
                       IF Counted(st.currentSection) THEN @ + 1 ELSE @,
                    !.completedItems =
                       IF Counted(st.currentSection) /\ completed
                       THEN @ + 1 ELSE @]
        ELSE st

RECURSIVE TodoLoop(_, _)
\* for (const line of lines) { .. }
TodoLoop(st, lines) ==
    IF lines = <<>> THEN st ELSE TodoLoop(TodoLine(st, Head(lines)), Tail(lines))

\* parseTodoMarkdown(content), called at time t, as a function
TodoStateOf(content, t) ==
    LET st == TodoLoop(TodoStart, Split(content)) IN
    [timestamp |-> t,
     sections |-> Pushed(st),
     totalItems |-> st.totalItems,
     completedItems |-> st.completedItems,
     overallCompletionPct |-> Percent(st.completedItems, st.totalItems)]

\* the lines the short documents handed to parseTodoMarkdown are made of
TodoLines ==
    { <<"#", "#", " ", "1", ".", " ", "S">>,
      <<"#", "#", "#", " ", "2", ".", "1", ".", " ", "T", " ">>,
      <<"#", "#", " ", "N">>,
      <<"#", "#", " ", "1", "2">>,
      <<"#", " ", "U">>,
      <<"-", " ", "[", " ", "]", " ", "a">>,
      <<" ", " ", "-", " ", "[", "X", "]", " ", "c">>,
      <<"-", "[", "x", "]", "d">>,
      <<"-", " ", "[", "y", "]", " ", "e">>,
      <<>> }

\* a checklist of one section of total items, completed of them done
Checklist(completed, total) ==
    Join(<< <<"#", "#", " ", "1", ".", " ", "S">> >>
         \o [i \in 1..total |->
                IF i <= completed THEN <<"-", " ", "[", "x", "]", " ", "a">>
                ELSE <<"-", " ", "[", " ", "]", " ", "a">>])

\* the documents handed to parseTodoMarkdown: short ones of lines of every
\* kind, and one-section checklists of up to MaxItems items
TodoDocuments ==
    Documents(TodoLines, MaxLines)
    \cup UNION {{Checklist(completed, total) : completed \in 0..total} :
                   total \in 0..MaxItems}

parseTodoMarkdown(c) ==
    /\ budget > 0
    /\ \E content \in TodoDocuments :
          Parsed(c, "parseTodoMarkdown", [content |-> content],
                 [tag |-> "TodoState", val |-> TodoStateOf(content, now)])

----------------------------------------------------------------------------
(* src/cli/utils/mergePackageJson.ts.  A JSON object is the sequence of    *)
(* its <<key, value>> entries in insertion order, keys distinct; an        *)
(* optional field is <<>> when missing and <<value>> when present.  Such   *)
(* objects survive JSON.stringify and JSON.parse unchanged, so the file    *)
(* holds the object.                                                       *)

MAO_DEPENDENCIES ==
    << <<"@lancedb/lancedb", "^0.9.0">>, <<"dotenv", "^16.4.5">>,
       <<"openai", "^4.70.0">>, <<"zod", "^3.23.8">> >>

MAO_DEV_DEPENDENCIES ==
    << <<"@types/node", "^22.10.0">>, <<"prettier", "^3.3.3">>,
       <<"tsx", "^4.19.2">>, <<"typescript", "^5.6.3">> >>

MAO_SCRIPTS ==
    << <<"seed-context", "npx tsx scripts/seed-context.ts">>,
       <<"retrieve", "npx tsx scripts/retrieve-context.ts">>,
       <<"lint", "npx prettier --check \"src/**/*.ts\" \"scripts/**/*.ts\"">>,
       <<"format", "npx prettier --write \"src/**/*.ts\" \"scripts/**/*.ts\"">> >>

\* Object.keys(obj)
Keys(obj) == [i \in 1..Len(obj) |-> obj[i][1]]

\* key in obj
HasKey(obj, key) == \E i \in 1..Len(obj) : obj[i][1] = key

\* obj[key], for a key of obj
ValueOf(obj, key) == obj[CHOOSE i \in 1..Len(obj) : obj[i][1] = key][2]

\* !obj[key]: the key is missing, or its value is falsy, which for a
\* string is the empty string
Falsy(obj, key) == ~HasKey(obj, key) \/ ValueOf(obj, key) = ""

\* obj[key] = value: the value of a key of obj is replaced where it stands,
\* a new key goes last
Put(obj, key, value) ==
    IF HasKey(obj, key)
    THEN [i \in 1..Len(obj) |->
             IF obj[i][1] = key THEN <<key, value>> ELSE obj[i]]
    ELSE Append(obj, <<key, value>>)

\* the keys of the model in the order Array.prototype.sort() puts them
\* (by UTF-16 code units)
SortedKeys ==
    << "@lancedb/lancedb", "@types/node", "build", "dotenv", "express",
       "format", "lint", "openai", "prettier", "retrieve", "seed-context",
       "test", "tsx", "typescript", "zod" >>

RankOf(key) == CHOOSE i \in 1..Len(SortedKeys) : SortedKeys[i] = key

RECURSIVE sortObject(_)
\* sortObject(obj): the entries of obj by ascending key
sortObject(obj) ==
    IF obj = <<>> THEN <<>>
    ELSE LET least == CHOOSE i \in 1..Len(obj) :
                         \A j \in 1..Len(obj) :
                            RankOf(obj[i][1]) <= RankOf(obj[j][1])
         IN  <<obj[least]>>
             \o sortObject([i \in 1..(Len(obj) - 1) |->
                              IF i < least THEN obj[i] ELSE obj[i + 1]])

\* `if (!packageJson.section) packageJson.section = {}`
Ensured(section) == IF section = <<>> THEN <<>> ELSE section[1]

RECURSIVE MergeInto(_, _, _)
\* `for (const [name, value] of Object.entries(wanted)) if (!obj[name])
\* { obj[name] = value; added.push(name) }`: the object and the names
\* pushed
MergeInto(obj, wanted, added) ==
    IF wanted = <<>> THEN [obj |-> obj, added |-> added]
    ELSE LET name == Head(wanted)[1]
             value == Head(wanted)[2]
         IN  IF Falsy(obj, name)
             THEN MergeInto(Put(obj, name, value), Tail(wanted),
                            Append(added, name))
             ELSE MergeInto(obj, Tail(wanted), added)

\* the MergeResult mergePackageJson starts from
NewMergeResult ==
    [changed |-> FALSE, addedDependencies |-> <<>>,
     addedDevDependencies |-> <<>>, addedScripts |-> <<>>, error |-> <<>>]

\* result.changed: it is set where a name is pushed and where type is set
Changed(added, typeSet) == added # <<>> \/ typeSet

\* the try block of mergePackageJson up to the write, on the object that
\* JSON.parse gave: the object to write and the result
Merged(packageJson) ==
    LET dependencies ==
            MergeInto(Ensured(packageJson.dependencies), MAO_DEPENDENCIES,
                      <<>>)
        devDependencies ==
            MergeInto(Ensured(packageJson.devDependencies),
                      MAO_DEV_DEPENDENCIES, <<>>)
        scripts ==
            MergeInto(Ensured(packageJson.scripts), MAO_SCRIPTS, <<>>)
        typeSet == packageJson.type \in {<<>>, <<"">>}
        changed == Changed(dependencies.added \o devDependencies.added
                              \o scripts.added, typeSet)
    IN  [packageJson |->
            [packageJson EXCEPT
               !.type = IF typeSet THEN <<"module">> ELSE @,
               !.dependencies = <<sortObject(dependencies.obj)>>,
               !.devDependencies = <<sortObject(devDependencies.obj)>>,
               !.scripts = <<scripts.obj>>],
         result |->
            [NewMergeResult EXCEPT
               !.changed = changed,
               !.addedDependencies = dependencies.added,
               !.addedDevDependencies = devDependencies.added,
               !.addedScripts = scripts.added]]

\* the object createPackageJson writes
CreatedPackageJson(projectName) ==
    [name |-> <<projectName>>,
     version |-> <<"0.1.0">>,
     description |-> <<"">>,
     type |-> <<"module">>,
     scripts |->
        << << <<"build", "tsc">>,
              <<"test", "echo \"No tests configured yet\" && exit 0">> >>
           \o MAO_SCRIPTS >>,
     dependencies |-> <<sortObject(MAO_DEPENDENCIES)>>,
     devDependencies |-> <<sortObject(MAO_DEV_DEPENDENCIES)>>,
     engines |-> << << <<"node", ">=18.0.0">> >> >>]

\* the object writePackageJson writes
WrittenPackageJson(projectName, projectSlug) ==
    [CreatedPackageJson(projectSlug) EXCEPT
       !.description = <<projectName \o " - Created with MAO">>]

\* the result createPackageJson starts from
NewCreateResult ==
    [NewMergeResult EXCEPT
       !.addedDependencies = Keys(MAO_DEPENDENCIES),
       !.addedDevDependencies = Keys(MAO_DEV_DEPENDENCIES),
       !.addedScripts = Keys(MAO_SCRIPTS)]

----------------------------------------------------------------------------
(* The project directory and src/cli/utils/copyTemplates.ts                *)

\* the content of a file: where it is from (none, the user, a template of
\* the package, a default that copyTemplates writes, .env.example) and the
\* project name it holds: none, a name, or the placeholder $PROJECT_NAME
NoFile == [from |-> "none", name |-> ""]

UserFile == [from |-> "user", name |-> ""]

\* a file of the user that holds the placeholder
PlaceholderFile == [from |-> "user", name |-> "$PROJECT_NAME"]

\* content.replace(/\$PROJECT_NAME/g, projectName): a content without the
\* placeholder is left as it is
replacePlaceholders(content, projectName) ==
    [content EXCEPT !.name = IF @ = "$PROJECT_NAME" THEN projectName ELSE @]

\* the files of templates/ as the repository has them (src/templates)
Templates == <<"docs/MAO-Version-2-Enhancements.md", "journal.md">>

\* the content of a file of templates/: neither of the two holds a
\* placeholder
TemplateSource(path) == [from |-> "template", name |-> ""]

DefaultFile(projectName) == [from |-> "default", name |-> projectName]

\* step 7 of adopt: the content of .env.example with $PROJECT_NAME
\* replaced by the project name
EnvFile(example, projectName) ==
    [replacePlaceholders(example, projectName) EXCEPT !.from = "example"]

\* the directories copyTemplates looks for in templates/, in its order
TemplateDirectories == <<".claude", "docs", "scripts", "src/context">>

\* the files of templates/ copyTemplates looks for after them
rootConfigs == <<"tsconfig.json", ".env.example", ".gitignore", ".prettierrc">>

\* what copyTemplates copies when it is there, in its order
CopyUnits == TemplateDirectories \o rootConfigs

\* the directory of templates/ a file of it is in; "" for a file of
\* templates/ itself
DirectoryOf(path) ==
    CASE path = "docs/MAO-Version-2-Enhancements.md" -> "docs"
      [] OTHER -> ""

\* fs.readdir(sourceDir) of a directory of templates/: its files
Entries(dir) == SelectSeq(Templates, LAMBDA f : DirectoryOf(f) = dir)

\* existsSync(path.join(templatesDir, unit))
SourceExists(unit) ==
    IF unit \in Range(TemplateDirectories) THEN Entries(unit) # <<>>
    ELSE unit \in Range(Templates)

\* the files of templates/ copyTemplates copies, in its order: those of
\* each directory and each root config file that is there; with the
\* templates of the repository, the one file of docs/
TemplateFiles ==
    LET UnitFiles(unit) ==
           IF ~SourceExists(unit) THEN <<>>
           ELSE IF unit \in Range(TemplateDirectories) THEN Entries(unit)
           ELSE <<unit>>
    IN  UnitFiles(CopyUnits[1]) \o UnitFiles(CopyUnits[2])
           \o UnitFiles(CopyUnits[3]) \o UnitFiles(CopyUnits[4])
           \o UnitFiles(CopyUnits[5]) \o UnitFiles(CopyUnits[6])
           \o UnitFiles(CopyUnits[7]) \o UnitFiles(CopyUnits[8])

\* the files copyTemplates creates when they are missing
DefaultFiles == <<"journal.md", "todo/tasks.md">>

\* the files of a project directory: those copyTemplates writes, and the
\* two that step 7 of adopt reads and writes
ProjectFiles ==
    Range(TemplateFiles) \cup Range(DefaultFiles) \cup {".env.example", ".env"}

\* the files whose placeholders copyFileAsync replaces
TEMPLATE_EXTENSIONS == {".md", ".json", ".ts", ".js", ".yaml", ".yml", ".txt"}

\* path.extname(path), on the files of the model
extname(path) ==
    CASE path = "docs/MAO-Version-2-Enhancements.md" -> ".md"
      [] path = "tsconfig.json" -> ".json"
      [] path = ".env.example" -> ".example"
      [] path \in {".gitignore", ".prettierrc", ".env"} -> ""
      [] path \in {"journal.md", "todo/tasks.md"} -> ".md"

\* options.targetDir, the directory of the project: process.cwd()
targetDir == "cwd"

\* the directories of the model: cwd, and those `mao create` makes in it
Directories == {targetDir, "app", "demo-two"}

\* the message of the error a rejected fs call carries
ErrorMessage == "EACCES: permission denied"

\* the message of the SyntaxError JSON.parse throws
SyntaxErrorMessage == "Expected property name or '}' in JSON at position 2"

\* the error of mergePackageJson's catch block
MergeError(errorMessage) == "Failed to merge package.json: " \o errorMessage

\* existsSync(path)
FileExists(files, path) == files[path].from # "none"

\* pathExists(path): `try { await fs.access(path); return true } catch {
\* return false }`, so what it may say of a path that exists or not:
\* false when the path is not there, and also when access is rejected
\* for a path that is there
Seen(exists) == {b \in BOOLEAN : b => exists}

\* slugToDisplayName(path.basename(cwd)), and what the user may type at
\* the 'Project name:' prompt
DefaultName == "App"

ProjectNames == {"App", "Demo Two"}

\* slugify(name), on the names of the model
slugify(name) ==
    CASE name = "App" -> "app"
      [] name = "Demo Two" -> "demo-two"
      [] name = "app" -> "app"
      [] name = "demo-two" -> "demo-two"

\* the names `mao create <project-name>` is given
CreateNames == {"app", "demo-two", "_app"}

\* isValidProjectName(name), on the names of the model
isValidProjectName(name) ==
    CASE name = "app" -> TRUE
      [] name = "demo-two" -> TRUE
      [] name = "_app" -> FALSE

\* slugToDisplayName(slug), on the names of the model
slugToDisplayName(slug) ==
    CASE slug = "app" -> "App"
      [] slug = "demo-two" -> "Demo Two"
      [] slug = "_app" -> " App"

\* the CopyResult copyTemplates starts from
NewCopyResult == [copied |-> <<>>, skipped |-> <<>>, errors |-> <<>>]

\* the options adopt and create hand to copyTemplates: projectName,
\* projectSlug and targetDir only, so overwrite is undefined (not truthy)
\* and skipExisting is undefined (not false)
CopyOptions(force, overwrite) == [overwrite |-> FALSE, skipExisting |-> TRUE]

\* the locals of a CLI call; idx is the unit copyTemplates is at, entry the
\* file of a directory unit copyDirectoryAsync is at, step the await
\* copyTemplates is at after the units
CliLoc ==
    [force |-> FALSE, overwrite |-> FALSE, projectName |-> "",
     existingPackageJson |-> FALSE, claudeDirExists |-> FALSE, idx |-> 0,
     entry |-> 0, step |-> 0,
     copyOptions |-> [overwrite |-> FALSE, skipExisting |-> TRUE],
     result |-> NewCopyResult,
     packageJson |-> <<>>]

\* the call ends: it returns, or the process exits with a code
Finished(k, out, code) == [k EXCEPT !.pc = "done", !.out = out, !.err = code]

\* a CLI call starts and runs up to its first await
BeginCli(c, op, arg, pc) ==
    /\ FirstFree(c)
    /\ budget > 0
    /\ budget' = budget - 1
    /\ calls' = [calls EXCEPT ![c] =
                    [Idle EXCEPT !.op = op, !.pc = pc, !.arg = arg,
                                 !.loc = CliLoc, !.out = "pending"]]
    /\ UNCHANGED <<tableNames, rows, dbConnection, connectCalls, now,
                   project>>

\* the frame of a step of a CLI call
CliFrame == UNCHANGED <<tableNames, rows, dbConnection, connectCalls, now,
                        budget>>

\* result.copied.push(path)
Copied(k, path) == [k EXCEPT !.loc.result.copied = Append(@, path)]

\* result.skipped.push(path)
Skipped(k, path) == [k EXCEPT !.loc.result.skipped = Append(@, path)]

\* result.errors.push({ file, error })
Failed(k, file, error) ==
    [k EXCEPT !.loc.result.errors =
                 Append(@, [file |-> file, error |-> error])]

\* fs.mkdir(dir, { recursive: true }) of a directory of the project: the
\* directories above it are made with it, so src/context makes src; of
\* scripts and of src/context themselves the model keeps no record
MadeDirectory(proj, dir) ==
    CASE dir = ".claude" -> [proj EXCEPT !.exists = TRUE, !.claudeDir = TRUE]
      [] dir = "docs" -> [proj EXCEPT !.exists = TRUE, !.docsDir = TRUE]
      [] dir = "todo" -> [proj EXCEPT !.exists = TRUE, !.todoDir = TRUE]
      [] dir \in {"src", "src/context"} ->
           [proj EXCEPT !.exists = TRUE, !.srcDir = TRUE]
      [] OTHER -> [proj EXCEPT !.exists = TRUE]

\* path.dirname(targetPath), relative to the project
dirname(path) ==
    CASE path = "docs/MAO-Version-2-Enhancements.md" -> "docs"
      [] path = "todo/tasks.md" -> "todo"
      [] OTHER -> "."

\* a file of the project is written
WrittenFile(proj, path, content) ==
    [proj EXCEPT !.files[path] = content]

\* copyTemplates (copySubdirectory) returns its result to its caller,
\* which runs up to its next await: adopt goes on to package.json, create
\* to writePackageJson
CopyReturned(k) ==
    CASE k.op = "adopt" ->
           [k EXCEPT !.pc = IF k.loc.existingPackageJson
                            THEN "merge-access" ELSE "create-access"]
      [] k.op = "create" -> [k EXCEPT !.pc = "write-package-json"]
      [] OTHER ->
           Finished([k EXCEPT !.res = [tag |-> "CopyResult",
                                       val |-> k.loc.result]],
                    "returned", "none")

\* the awaits of copyTemplates after its units, in order: mkdir of todo
\* and of src, writeFile of journal.md and of todo/tasks.md
DefaultSteps == <<"todo", "src", "journal.md", "todo/tasks.md">>

\* `if (!existsSync(..))` in front of each of them
Due(proj, s) ==
    CASE s = "todo" -> ~proj.todoDir
      [] s = "src" -> ~proj.srcDir
      [] OTHER -> ~FileExists(proj.files, s)

\* copyTemplates from the j-th of these on, the project being proj: it
\* awaits the first that is due, or returns
ContinueDefaults(k, proj, j) ==
    LET due == {i \in j..Len(DefaultSteps) : Due(proj, DefaultSteps[i])} IN
    IF due = {} THEN CopyReturned(k)
    ELSE LET i == CHOOSE i \in due : \A m \in due : i <= m
         IN  [k EXCEPT !.loc.step = i,
                       !.pc = IF DefaultSteps[i] \in {"todo", "src"}
                              THEN "copy-empty-dir" ELSE "copy-default-file"]

\* copyDirectoryAsync or copyFileAsync is called on unit i and runs up to
\* its first await: the mkdir of a directory, pathExists of a file
EnterUnit(k, i) ==
    [k EXCEPT !.loc.idx = i,
              !.loc.entry = 0,
              !.pc = IF CopyUnits[i] \in Range(TemplateDirectories)
                     THEN "copy-dir-mkdir" ELSE "copy-access"]

\* copyTemplates from unit i on, the project being proj: a unit is skipped
\* `if (existsSync(source))` fails; after the units come the defaults
StartUnit(k, proj, i) ==
    LET found == {u \in i..Len(CopyUnits) : SourceExists(CopyUnits[u])} IN
    IF found = {} THEN ContinueDefaults(k, proj, 1)
    ELSE EnterUnit(k, CHOOSE u \in found : \A m \in found : u <= m)

\* copyTemplates once it is done with unit k.loc.idx, the project being
\* proj; copySubdirectory returns after its directory
AfterUnit(k, proj) ==
    IF k.op = "copySubdirectory" THEN CopyReturned(k)
    ELSE StartUnit(k, proj, k.loc.idx + 1)

\* the file copyFileAsync is copying: the entry of the directory unit, or
\* the root config file
SourcePath(k) ==
    LET unit == CopyUnits[k.loc.idx] IN
    IF unit \in Range(TemplateDirectories) THEN Entries(unit)[k.loc.entry]
    ELSE unit

\* copyFileAsync returns, the project being proj: the loop of
\* copyDirectoryAsync calls it on the next entry, or the unit is done
ContinueCopy(k, proj) ==
    LET unit == CopyUnits[k.loc.idx] IN
    IF unit \in Range(TemplateDirectories)
       /\ k.loc.entry < Len(Entries(unit))
    THEN [k EXCEPT !.loc.entry = @ + 1, !.pc = "copy-access"]
    ELSE AfterUnit(k, proj)

\* the directory a call works in: `mao create <name>` in the directory
\* <name> of cwd, every other call in cwd
DirOf(k) == IF k.op = "create" THEN k.arg.projectName ELSE targetDir

\* the directory call c works in, as it is now
Project(c) == project[DirOf(calls[c])]

\* the step of call c leaves its directory as proj
Becomes(c, proj) == project' = [project EXCEPT ![DirOf(calls[c])] = proj]

\* the step of call c leaves the call as k and its directory as proj
Leaves(c, k, proj) ==
    /\ calls' = [calls EXCEPT ![c] = k]
    /\ Becomes(c, proj)

\* a directory that does not exist
NoDirectory ==
    [exists |-> FALSE, files |-> [f \in ProjectFiles |-> NoFile],
     claudeDir |-> FALSE, docsDir |-> FALSE, todoDir |-> FALSE,
     srcDir |-> FALSE, packageJson |-> <<>>]

\* what fs.rmSync(targetDir, { recursive: true, force: true }) may leave
\* of proj when it throws on the way: the directory with any of its files,
\* of its directories and its package.json still there, a directory that
\* still holds a file being still there; nothing may be removed yet
PartlyRemoved(proj) ==
    LET HasDirectory(dir) ==
           CASE dir = ".claude" -> proj.claudeDir
             [] dir = "docs" -> proj.docsDir
             [] dir = "todo" -> proj.todoDir
             [] dir = "src" -> proj.srcDir
    IN
    { [exists |-> TRUE,
       files |-> [f \in ProjectFiles |->
                     IF f \in left[1] THEN proj.files[f] ELSE NoFile],
       claudeDir |-> ".claude" \in left[2],
       docsDir |-> "docs" \in left[2],
       todoDir |-> "todo" \in left[2],
       srcDir |-> "src" \in left[2],
       packageJson |-> IF left[3] THEN proj.packageJson ELSE <<>>] :
         left \in
            { t \in (SUBSET {f \in ProjectFiles : FileExists(proj.files, f)})
                      \X (SUBSET {d \in {".claude", "docs", "todo", "src"} :
                                     HasDirectory(d)})
                      \X BOOLEAN :
                 \A f \in t[1] : dirname(f) = "." \/ dirname(f) \in t[2] } }

\* an awaited call that nothing in copyTemplates catches is rejected, the
\* project being proj: copyTemplates rejects and adopt exits with code 1;
\* the catch of create runs, `if (fs.existsSync(targetDir))`, fs.rmSync(
\* targetDir, { recursive: true, force: true }), which removes the
\* directory or throws with part of it removed, ignores what it throws
\* and exits with code 1
Rejects(c, proj) ==
    CASE calls[c].op = "adopt" ->
           Leaves(c, Finished(calls[c], "exited", "1"), proj)
      [] calls[c].op = "create" ->
           /\ calls' = [calls EXCEPT ![c] = Finished(calls[c], "exited", "1")]
           /\ IF proj.exists
              THEN \E left \in {NoDirectory} \cup PartlyRemoved(proj) :
                      Becomes(c, left)
              ELSE Becomes(c, proj)
      [] OTHER ->
           Leaves(c, Finished(calls[c], "raised", ErrorMessage), proj)

----------------------------------------------------------------------------
(* copyTemplates, await by await *)

\* the overwrite and skipExisting a caller of the template utilities may
\* set: overwrite, skip what exists (the default), or report what exists
CopyOptionSets ==
    { [overwrite |-> TRUE, skipExisting |-> TRUE],
      [overwrite |-> FALSE, skipExisting |-> TRUE],
      [overwrite |-> FALSE, skipExisting |-> FALSE] }

\* the project name and options copyTemplates is called with
CopyCalls ==
    { <<"App", [overwrite |-> TRUE, skipExisting |-> TRUE]>>,
      <<"Demo Two", [overwrite |-> FALSE, skipExisting |-> TRUE]>> }

\* copyTemplates(options), called on its own
copyTemplates(c) ==
    /\ budget > 0
    /\ FirstFree(c)
    /\ budget' = budget - 1
    /\ \E call \in CopyCalls :
          LET projectName == call[1]
              options == call[2]
          IN
          calls' = [calls EXCEPT ![c] =
                       [Idle EXCEPT
                          !.op = "copyTemplates",
                          !.pc = "copy-target-mkdir",
                          !.arg = [projectName |-> projectName,
                                   options |-> options],
                          !.loc = [CliLoc EXCEPT
                                     !.projectName = projectName,
                                     !.copyOptions = options],
                          !.out = "pending"]]
    /\ UNCHANGED <<tableNames, rows, dbConnection, connectCalls, now,
                   project>>

\* the directories of templates/ copySubdirectory is asked for; of them
\* the repository has docs
Subdirectories == {".claude", "scripts", "docs"}

\* copySubdirectory(subdir, options): `if (!existsSync(sourceDir))` it
\* returns an error at once, else it runs up to the mkdir of
\* copyDirectoryAsync
copySubdirectory(c) ==
    /\ budget > 0
    /\ FirstFree(c)
    /\ budget' = budget - 1
    /\ \E subdir \in Subdirectories, options \in CopyOptionSets :
          LET k == [Idle EXCEPT
                      !.op = "copySubdirectory",
                      !.arg = [subdir |-> subdir,
                               projectName |-> DefaultName,
                               options |-> options],
                      !.loc = [CliLoc EXCEPT
                                 !.projectName = DefaultName,
                                 !.copyOptions = options],
                      !.out = "pending"]
          IN  calls' = [calls EXCEPT ![c] =
                 IF ~SourceExists(subdir)
                 THEN CopyReturned(
                         Failed(k, subdir,
                                "Source directory not found: " \o subdir))
                 ELSE EnterUnit(k, CHOOSE i \in 1..Len(CopyUnits) :
                                      CopyUnits[i] = subdir)]
    /\ UNCHANGED <<tableNames, rows, dbConnection, connectCalls, now,
                   project>>

\* `await fs.mkdir(targetDir, { recursive: true })` of copyTemplates, in a
\* try of its own
CopyTargetMkdirResolves(c) ==
    /\ calls[c].pc = "copy-target-mkdir"
    /\ \E ok \in BOOLEAN :
          IF ok
          THEN LET proj == MadeDirectory(Project(c), ".")
               IN  Leaves(c, StartUnit(calls[c], proj, 1), proj)
          ELSE Leaves(c, CopyReturned(
                            Failed(calls[c], DirOf(calls[c]),
                                   "Failed to create target directory: "
                                      \o ErrorMessage)),
                      Project(c))
    /\ CliFrame

\* what the catch of copyDirectoryAsync does with a rejected mkdir or
\* readdir: the directory is given up
DirectoryFailed(k) ==
    Failed(k, CopyUnits[k.loc.idx],
           "Failed to copy directory: " \o ErrorMessage)

\* `await fs.mkdir(targetDir, { recursive: true })` of copyDirectoryAsync
CopyDirMkdirResolves(c) ==
    /\ calls[c].pc = "copy-dir-mkdir"
    /\ \E ok \in BOOLEAN :
          IF ok
          THEN Leaves(c, [calls[c] EXCEPT !.pc = "copy-readdir"],
                      MadeDirectory(Project(c), CopyUnits[calls[c].loc.idx]))
          ELSE Leaves(c, AfterUnit(DirectoryFailed(calls[c]), Project(c)),
                      Project(c))
    /\ CliFrame

\* `await fs.readdir(sourceDir, { withFileTypes: true })`; the loop then
\* calls copyFileAsync on the first entry, which runs up to `await
\* pathExists(targetPath)`
CopyReaddirResolves(c) ==
    /\ calls[c].pc = "copy-readdir"
    /\ \E ok \in BOOLEAN :
          Leaves(c, IF ok THEN ContinueCopy(calls[c], Project(c))
                    ELSE AfterUnit(DirectoryFailed(calls[c]), Project(c)),
                 Project(c))
    /\ CliFrame

\* copyFileAsync once pathExists has resolved with destExists: the file is
\* skipped, reported, or copied, the mkdir of its directory coming first
AfterAccess(k, path, destExists, proj) ==
    IF destExists /\ ~k.loc.copyOptions.overwrite
    THEN IF k.loc.copyOptions.skipExisting
         THEN ContinueCopy(Skipped(k, path), proj)
         ELSE ContinueCopy(Failed(k, path, "File already exists"), proj)
    ELSE [k EXCEPT !.pc = "copy-mkdir"]

\* `await pathExists(targetPath)` of copyFileAsync
CopyAccessResolves(c) ==
    /\ calls[c].pc = "copy-access"
    /\ LET path == SourcePath(calls[c]) IN
       \E destExists \in Seen(FileExists(Project(c).files, path)) :
          Leaves(c, AfterAccess(calls[c], path, destExists, Project(c)),
                 Project(c))
    /\ CliFrame

\* what the catch of copyFileAsync does with a rejected mkdir, readFile,
\* writeFile or copyFile: the file is given up
FileFailed(k) == Failed(k, SourcePath(k), ErrorMessage)

\* `await fs.mkdir(targetDir, { recursive: true })` of copyFileAsync; a
\* file with a template extension is read next, another is copied as it is
CopyMkdirResolves(c) ==
    /\ calls[c].pc = "copy-mkdir"
    /\ LET path == SourcePath(calls[c]) IN
       \E ok \in BOOLEAN :
          IF ok
          THEN Leaves(c, [calls[c] EXCEPT
                            !.pc = IF extname(path) \in TEMPLATE_EXTENSIONS
                                   THEN "copy-read" ELSE "copy-copyFile"],
                      MadeDirectory(Project(c), dirname(path)))
          ELSE Leaves(c, ContinueCopy(FileFailed(calls[c]), Project(c)), Project(c))
    /\ CliFrame

\* `await fs.readFile(sourcePath, 'utf-8')` of copyFileAsync
CopyReadFileResolves(c) ==
    /\ calls[c].pc = "copy-read"
    /\ \E ok \in BOOLEAN :
          Leaves(c, IF ok THEN [calls[c] EXCEPT !.pc = "copy-write"]
                    ELSE ContinueCopy(FileFailed(calls[c]), Project(c)),
                 Project(c))
    /\ CliFrame

\* `await fs.writeFile(targetPath, processedContent, 'utf-8')`, the
\* content being replacePlaceholders(content, projectName, projectSlug)
CopyWriteFileResolves(c) ==
    /\ calls[c].pc = "copy-write"
    /\ LET k == calls[c]
           path == SourcePath(k)
       IN
       \E ok \in BOOLEAN :
          IF ok
          THEN LET proj == WrittenFile(Project(c), path,
                                       replacePlaceholders(
                                          TemplateSource(path),
                                          k.loc.projectName))
               IN  Leaves(c, ContinueCopy(Copied(k, path), proj), proj)
          ELSE Leaves(c, ContinueCopy(FileFailed(k), Project(c)), Project(c))
    /\ CliFrame

\* `await fs.copyFile(sourcePath, targetPath)` of a file without a
\* template extension, which arrives as templates/ has it; templates/ of
\* the repository holds none that copyTemplates copies
CopyCopyFileResolves(c) ==
    /\ calls[c].pc = "copy-copyFile"
    /\ LET k == calls[c]
           path == SourcePath(k)
       IN
       \E ok \in BOOLEAN :
          IF ok
          THEN LET proj == WrittenFile(Project(c), path, TemplateSource(path))
               IN  Leaves(c, ContinueCopy(Copied(k, path), proj), proj)
          ELSE Leaves(c, ContinueCopy(FileFailed(k), Project(c)), Project(c))
    /\ CliFrame

\* `await fs.mkdir(dirPath, { recursive: true })` of todo or src; it is in
\* no try
CopyEmptyDirResolves(c) ==
    /\ calls[c].pc = "copy-empty-dir"
    /\ LET k == calls[c]
           dir == DefaultSteps[k.loc.step]
       IN
       \E ok \in BOOLEAN :
          IF ok
          THEN LET proj == MadeDirectory(Project(c), dir)
               IN  Leaves(c, ContinueDefaults(k, proj, k.loc.step + 1), proj)
          ELSE Rejects(c, Project(c))
    /\ CliFrame

\* `await fs.writeFile(..)` of journal.md or todo/tasks.md, then
\* result.copied.push(..); it is in no try
CopyDefaultFileResolves(c) ==
    /\ calls[c].pc = "copy-default-file"
    /\ LET k == calls[c]
           path == DefaultSteps[k.loc.step]
       IN
       \E ok \in BOOLEAN :
          IF ok
          THEN LET proj == WrittenFile(Project(c), path,
                                       DefaultFile(k.loc.projectName))
               IN  Leaves(c, ContinueDefaults(Copied(k, path), proj,
                                              k.loc.step + 1),
                          proj)
          ELSE Rejects(c, Project(c))
    /\ CliFrame

----------------------------------------------------------------------------
(* mergePackageJson, createPackageJson and writePackageJson, called on     *)
(* their own or by adopt and create                                        *)

\* step 7 of adopt, run once package.json is dealt with, and the rest of
\* adopt: pathExists(path) is fs.accessSync in a try, so it says false for
\* a file that is not there and may say so for one that is; .env is made
\* from .env.example when the first is not seen and the second is, and
\* adopt returns; when fs.readFileSync or fs.writeFileSync throws, the
\* catch of adopt exits with code 1 and .env is left as it was
AdoptDone(c) ==
    LET k == calls[c]
        files == Project(c).files
    IN  \E envSeen \in {b \in BOOLEAN : b => FileExists(files, ".env")},
           exampleSeen \in {b \in BOOLEAN :
                               b => FileExists(files, ".env.example")} :
           IF ~envSeen /\ exampleSeen
           THEN \E ok \in BOOLEAN :
                   IF ok
                   THEN Leaves(c, Finished(k, "returned", "none"),
                               WrittenFile(Project(c), ".env",
                                  EnvFile(files[".env.example"],
                                          k.loc.projectName)))
                   ELSE Leaves(c, Finished(k, "exited", "1"), Project(c))
           ELSE Leaves(c, Finished(k, "returned", "none"), Project(c))

\* mergePackageJson or createPackageJson returns result, having left
\* package.json as after says
PackageJsonDone(c, result, after) ==
    LET k == calls[c] IN
    IF k.op # "adopt"
    THEN /\ calls' = [calls EXCEPT ![c] =
                         Finished([k EXCEPT !.res = [tag |-> "MergeResult",
                                                     val |-> result]],
                                  "returned", "none")]
         /\ Becomes(c, [Project(c) EXCEPT !.packageJson = after])
    ELSE IF result.error # <<>>
    THEN \* console.error and process.exit(1)
         /\ calls' = [calls EXCEPT ![c] = Finished(k, "exited", "1")]
         /\ Becomes(c, [Project(c) EXCEPT !.packageJson = after])
    ELSE IF result.changed
    THEN \* needsInstall: await runCommand('npm', ['install'], cwd)
         /\ calls' = [calls EXCEPT ![c].pc = "install"]
         /\ Becomes(c, [Project(c) EXCEPT !.packageJson = after])
    ELSE /\ Project(c).packageJson = after
         /\ AdoptDone(c)

mergePackageJson(c) ==
    /\ budget > 0
    /\ BeginCli(c, "mergePackageJson", [targetDir |-> targetDir], "merge-access")

createPackageJson(c) ==
    /\ budget > 0
    /\ \E projectName \in {slugify(n) : n \in ProjectNames} :
          BeginCli(c, "createPackageJson",
                   [targetDir |-> targetDir, projectName |-> projectName],
                   "create-access")

\* writePackageJson(targetDir, projectName, projectSlug): it runs up to its
\* writeFile, without looking whether package.json exists
writePackageJson(c) ==
    /\ budget > 0
    /\ \E projectName \in ProjectNames :
          BeginCli(c, "writePackageJson",
                   [targetDir |-> targetDir, projectName |-> projectName],
                   "write-package-json")

\* `await pathExists(packageJsonPath)` of mergePackageJson
MergeAccessResolves(c) ==
    /\ calls[c].pc = "merge-access"
    /\ \E exists \in Seen(Project(c).packageJson # <<>>) :
       IF ~exists
       THEN PackageJsonDone(c, [NewMergeResult EXCEPT
                                   !.error = <<"package.json not found">>],
                            Project(c).packageJson)
       ELSE /\ calls' = [calls EXCEPT ![c].pc = "merge-read"]
            /\ UNCHANGED project
    /\ CliFrame

\* `await fs.readFile(..)`, JSON.parse and the merge, up to the write; the
\* object to write is kept in packageJson
MergeReadResolves(c) ==
    /\ calls[c].pc = "merge-read"
    /\ \E ok \in BOOLEAN :
          IF ~ok \/ Project(c).packageJson = <<>>
          THEN PackageJsonDone(c, [NewMergeResult EXCEPT
                                      !.error = <<MergeError(ErrorMessage)>>],
                               Project(c).packageJson)
          ELSE IF ~Project(c).packageJson[1].valid
          THEN PackageJsonDone(c, [NewMergeResult EXCEPT
                                      !.error = <<MergeError(SyntaxErrorMessage)>>],
                               Project(c).packageJson)
          ELSE LET merged == Merged(Project(c).packageJson[1].json) IN
               IF merged.result.changed
               THEN /\ calls' = [calls EXCEPT
                                   ![c].pc = "merge-write",
                                   ![c].loc.packageJson = <<merged.packageJson>>,
                                   ![c].res = [tag |-> "MergeResult",
                                               val |-> merged.result]]
                    /\ UNCHANGED project
               ELSE PackageJsonDone(c, merged.result, Project(c).packageJson)
    /\ CliFrame

\* `await fs.writeFile(packageJsonPath, updatedContent, 'utf-8')`
MergeWriteResolves(c) ==
    /\ calls[c].pc = "merge-write"
    /\ \E ok \in BOOLEAN :
          LET result == calls[c].res.val IN
          IF ok
          THEN PackageJsonDone(c, result,
                  << [valid |-> TRUE,
                      json |-> calls[c].loc.packageJson[1]] >>)
          ELSE PackageJsonDone(c, [result EXCEPT
                                      !.error = <<MergeError(ErrorMessage)>>],
                               Project(c).packageJson)
    /\ CliFrame

\* `await pathExists(packageJsonPath)` of createPackageJson
CreateAccessResolves(c) ==
    /\ calls[c].pc = "create-access"
    /\ \E exists \in Seen(Project(c).packageJson # <<>>) :
       IF exists
       THEN PackageJsonDone(c, [NewCreateResult EXCEPT
                                   !.error = <<"package.json already exists">>],
                            Project(c).packageJson)
       ELSE /\ calls' = [calls EXCEPT ![c].pc = "create-mkdir"]
            /\ UNCHANGED project
    /\ CliFrame

\* `await fs.mkdir(targetDir, { recursive: true })` of createPackageJson
CreateMkdirResolves(c) ==
    /\ calls[c].pc = "create-mkdir"
    /\ \E ok \in BOOLEAN :
          IF ok
          THEN /\ calls' = [calls EXCEPT ![c].pc = "create-write"]
               /\ Becomes(c, MadeDirectory(Project(c), "."))
          ELSE PackageJsonDone(c, [NewCreateResult EXCEPT
                                      !.error = <<"Failed to create package.json: " \o ErrorMessage>>],
                               Project(c).packageJson)
    /\ CliFrame

\* `await fs.writeFile(packageJsonPath, content, 'utf-8')` of
\* createPackageJson
CreateWriteResolves(c) ==
    /\ calls[c].pc = "create-write"
    /\ \E ok \in BOOLEAN :
          IF ok
          THEN PackageJsonDone(c, [NewCreateResult EXCEPT !.changed = TRUE],
                  << [valid |-> TRUE,
                      json |-> CreatedPackageJson(
                                  IF calls[c].op = "adopt"
                                  THEN slugify(calls[c].loc.projectName)
                                  ELSE calls[c].arg.projectName)] >>)
          ELSE PackageJsonDone(c, [NewCreateResult EXCEPT
                                      !.error = <<"Failed to create package.json: " \o ErrorMessage>>],
                               Project(c).packageJson)
    /\ CliFrame

\* `await fs.writeFile(packageJsonPath, ..)` of writePackageJson: create
\* goes on to npm install, a rejected write rejects writePackageJson
WritePackageJsonResolves(c) ==
    /\ calls[c].pc = "write-package-json"
    /\ LET k == calls[c]
           projectName == IF k.op = "create" THEN k.loc.projectName
                          ELSE k.arg.projectName
           projectSlug == slugify(k.arg.projectName)
       IN
       \E ok \in BOOLEAN :
          IF ok
          THEN Leaves(c, IF k.op = "create" THEN [k EXCEPT !.pc = "install"]
                         ELSE Finished(k, "returned", "none"),
                      [Project(c) EXCEPT !.packageJson =
                         << [valid |-> TRUE,
                             json |-> WrittenPackageJson(projectName,
                                                         projectSlug)] >>])
          ELSE Rejects(c, Project(c))
    /\ CliFrame

----------------------------------------------------------------------------
(* src/cli/commands/adopt.ts and create.ts *)

\* `mao adopt [--force]`, up to `await hasPackageJson(cwd)`
adopt(c) ==
    /\ budget > 0
    /\ \E force \in BOOLEAN :
          BeginCli(c, "adopt", [force |-> force], "hasPackageJson")

\* step 4 of adopt: copyTemplates is called and runs up to its first await
StartCopy(k, projectName, overwrite) ==
    [k EXCEPT !.pc = "copy-target-mkdir",
              !.loc.projectName = projectName,
              !.loc.overwrite = overwrite,
              !.loc.idx = 0,
              !.loc.entry = 0,
              !.loc.step = 0,
              !.loc.copyOptions = CopyOptions(k.arg.force, overwrite),
              !.loc.result = NewCopyResult]

\* steps 1 and 2 of adopt: the directory is looked at; with --force the
\* name is the default one and no question is asked
HasPackageJsonResolves(c) ==
    /\ calls[c].pc = "hasPackageJson"
    /\ \E existingPackageJson \in Seen(Project(c).packageJson # <<>>),
          claudeDirExists \in Seen(Project(c).claudeDir) :
          LET k == [calls[c] EXCEPT
                      !.loc.force = calls[c].arg.force,
                      !.loc.existingPackageJson = existingPackageJson,
                      !.loc.claudeDirExists = claudeDirExists]
          IN  calls' = [calls EXCEPT ![c] =
                           IF k.arg.force THEN StartCopy(k, DefaultName, FALSE)
                           ELSE [k EXCEPT !.pc = "input"]]
    /\ UNCHANGED project
    /\ CliFrame

\* `await input({ message: 'Project name:', .. })`: a name, or the prompt
\* is closed, which the catch of adopt turns into process.exit(0)
InputResolves(c) ==
    /\ calls[c].pc = "input"
    /\ \/ \E projectName \in ProjectNames :
             calls' = [calls EXCEPT ![c] =
                          IF calls[c].loc.claudeDirExists
                          THEN [calls[c] EXCEPT
                                  !.pc = "confirm",
                                  !.loc.projectName = projectName]
                          ELSE StartCopy(calls[c], projectName, FALSE)]
       \/ calls' = [calls EXCEPT ![c] = Finished(calls[c], "exited", "0")]
    /\ UNCHANGED project
    /\ CliFrame

\* step 3 of adopt: `await confirm({ message: '.. Overwrite?', .. })`
ConfirmResolves(c) ==
    /\ calls[c].pc = "confirm"
    /\ \E overwrite \in BOOLEAN :
          calls' = [calls EXCEPT ![c] =
                       IF overwrite
                       THEN StartCopy(calls[c], calls[c].loc.projectName, TRUE)
                       ELSE Finished(calls[c], "exited", "0")]
    /\ UNCHANGED project
    /\ CliFrame

\* `mao create <project-name>`: the name is validated, the directory must
\* not exist and is made (fs.mkdirSync, inside the try), and copyTemplates
\* runs up to its first await; when fs.mkdirSync throws, the catch finds
\* no directory to remove and exits with code 1; what the catch does with
\* the directory after a later failure is in Rejects
create(c) ==
    /\ budget > 0
    /\ FirstFree(c)
    /\ budget' = budget - 1
    /\ \E projectName \in CreateNames, ok \in BOOLEAN :
          LET k == [Idle EXCEPT
                      !.op = "create",
                      !.arg = [projectName |-> projectName],
                      !.loc = [CliLoc EXCEPT
                                 !.projectName =
                                    slugToDisplayName(projectName),
                                 !.copyOptions = CopyOptions(FALSE, FALSE)],
                      !.out = "pending"]
          IN  IF ~isValidProjectName(projectName)
              THEN /\ calls' = [calls EXCEPT ![c] = Finished(k, "exited", "1")]
                   /\ UNCHANGED project
              ELSE IF project[projectName].exists \/ ~ok
              THEN /\ calls' = [calls EXCEPT ![c] = Finished(k, "exited", "1")]
                   /\ UNCHANGED project
              ELSE /\ calls' = [calls EXCEPT ![c] =
                                   [k EXCEPT !.pc = "copy-target-mkdir"]]
                   /\ project' = [project EXCEPT ![projectName] =
                                     MadeDirectory(@, ".")]
    /\ UNCHANGED <<tableNames, rows, dbConnection, connectCalls, now>>

\* `await runCommand('npm', ['install'], ..)` of adopt and of create
InstallResolves(c) ==
    /\ calls[c].pc = "install"
    /\ \E ok \in BOOLEAN :
          IF calls[c].op = "create"
          THEN IF ok
               THEN Leaves(c, Finished(calls[c], "returned", "none"), Project(c))
               ELSE Rejects(c, Project(c))
          ELSE IF ok THEN AdoptDone(c)
          ELSE Leaves(c, Finished(calls[c], "exited", "1"), Project(c))
    /\ CliFrame

\* time passes
Tick ==
    /\ now < MaxClock
    /\ now' = now + 1
    /\ UNCHANGED <<tableNames, rows, dbConnection, connectCalls, calls, budget,
                 project>>

----------------------------------------------------------------------------

\* The store is a directory on disk that outlives the process: the process
\* finds it as an earlier run left it.

\* never initialized
EmptyStore ==
    [tableNames |-> {}, rows |-> [c \in CollectionNames |-> <<>>]]

\* as initializeVectorDB, run at time 0, created it
InitializedStore ==
    [tableNames |-> CollectionNames,
     rows |-> [c \in CollectionNames |-> <<PlaceholderRow(c, 0)>>]]

\* what the write paths, run at time 0 after initializeVectorDB, added
SeedRecords(c) ==
    CASE c = PRD_SECTIONS ->
           LET b == CHOOSE b \in PrdBatches : Len(b) = 2
           IN  [i \in 1..2 |-> PrdRecord(b[i])]
      [] c = TODO_SNAPSHOTS ->
           <<SnapshotRecord(CHOOSE st \in TodoStates : st.timestamp = 0, 0)>>
      [] c = TODO_SECTIONS ->
           LET b == CHOOSE b \in TodoBatches :
                       Len(b) = 2 /\ b[1].sourceFile # b[2].sourceFile
           IN  [i \in 1..2 |-> TodoSectionRecord(b[i])]
      [] c = JOURNAL_ENTRIES ->
           <<JournalRecord(CHOOSE e \in JournalEntries : e.timestamp = 0)>>
      [] c = SESSION_SUMMARIES ->
           << SessionRecord(CHOOSE x \in SessionSummaries : x.timestamp = 1),
              SessionRecord(CHOOSE x \in SessionSummaries : x.timestamp = 0) >>

\* initialized and then written to by indexPrdSections, snapshotTodoState,
\* indexTodoSections, storeJournalEntry and storeSessionSummary (twice)
SeededStore ==
    [tableNames |-> CollectionNames,
     rows |-> [c \in CollectionNames |->
                  TableAdd(InitializedStore.rows[c], SeedRecords(c))]]

\* a directory with nothing in it
EmptyProject == [NoDirectory EXCEPT !.exists = TRUE]

\* the package.json files the utilities find: each section is missing,
\* empty, the user's own, or already holds the MAO keys; a user's value can
\* be the empty string
UserDependencies ==
    { <<>>, << <<>> >>,
      << << <<"zod", "^1.0.0">>, <<"express", "^4.19.2">> >> >>,
      << << <<"zod", "">> >> >>,
      << MAO_DEPENDENCIES >> }

UserDevDependencies ==
    { <<>>, << << <<"tsx", "^3.0.0">> >> >>, << MAO_DEV_DEPENDENCIES >> }

UserScripts ==
    { <<>>, << << <<"lint", "eslint .">>, <<"build", "tsc">> >> >>,
      << << <<"format", "">> >> >>, << MAO_SCRIPTS >> }

UserTypes == { <<>>, <<"">>, <<"commonjs">>, <<"module">> }

UserPackageJsons ==
    { [name |-> <<"app">>, type |-> t, scripts |-> s, dependencies |-> d,
       devDependencies |-> v] :
         t \in UserTypes, s \in UserScripts, d \in UserDependencies,
         v \in UserDevDependencies }

\* a package.json that is not JSON
BrokenPackageJson ==
    [valid |-> FALSE,
     json |-> [name |-> <<>>, type |-> <<>>, scripts |-> <<>>,
               dependencies |-> <<>>, devDependencies |-> <<>>]]

\* the directories the package.json utilities are called in
MergeProjects ==
    { [EmptyProject EXCEPT !.packageJson = p] :
         p \in {<<>>, <<BrokenPackageJson>>}
                \cup { << [valid |-> TRUE, json |-> j] >> :
                          j \in UserPackageJsons } }

\* the directories `mao adopt` is run in: any of the template files, of
\* journal.md and of .env may be there already, .env.example is missing
\* or the user's, with the placeholder or without, docs/ is there when
\* its file is, .claude/, todo/ and src/ are there or not, and
\* package.json is missing, the user's, or broken
AdoptProjects ==
    UNION {
       { [exists |-> TRUE,
          files |-> [f \in ProjectFiles |->
                        IF f = ".env.example" THEN example
                        ELSE IF f \in present THEN UserFile ELSE NoFile],
          claudeDir |-> claudeDir,
          docsDir |-> \E f \in present : dirname(f) = "docs",
          todoDir |-> todoDir,
          srcDir |-> srcDir,
          packageJson |-> p] :
            example \in {NoFile, UserFile, PlaceholderFile},
            claudeDir \in BOOLEAN,
            todoDir \in BOOLEAN,
            srcDir \in BOOLEAN,
            p \in { <<>>, <<BrokenPackageJson>>,
                    << [valid |-> TRUE,
                        json |-> [name |-> <<"app">>, type |-> <<>>,
                                  scripts |-> <<>>, dependencies |-> <<>>,
                                  devDependencies |-> <<>>]] >>,
                    << [valid |-> TRUE,
                        json |-> CreatedPackageJson("app")] >> } } :
       present \in
          SUBSET (Range(TemplateFiles) \cup {"journal.md", ".env"}) }

\* the directories the template utilities and `mao create` are called in:
\* one that does not exist, an empty one, and one that holds files of the
\* user where the templates go
CopyProjects ==
    { NoDirectory, EmptyProject,
      [EmptyProject EXCEPT
         !.docsDir = TRUE,
         !.files["docs/MAO-Version-2-Enhancements.md"] = UserFile,
         !.files[".env.example"] = UserFile,
         !.packageJson = << [valid |-> TRUE,
                             json |-> CreatedPackageJson("app")] >>] }

\* no directory of cwd is there yet
NothingCreated == { [d \in Directories |-> NoDirectory] }

\* a process starts: nothing is connected, no call is in flight
Start(stores, n) ==
    /\ \E s \in stores : tableNames = s.tableNames /\ rows = s.rows
    /\ dbConnection = Null
    /\ connectCalls = 0
    /\ now = 0
    /\ calls = [c \in Callers |-> Idle]
    /\ budget = n
    /\ project = [d \in {targetDir} |-> NoDirectory]

\* the CLI is started in one of projects; it does not touch the store
StartCli(projects, created, n) ==
    /\ tableNames = EmptyStore.tableNames
    /\ rows = EmptyStore.rows
    /\ dbConnection = Null
    /\ connectCalls = 0
    /\ now = 0
    /\ calls = [c \in Callers |-> Idle]
    /\ budget = n
    /\ \E p \in projects, made \in created :
          project = [d \in Directories |->
                       IF d = targetDir THEN p ELSE made[d]]

Init == Start({EmptyStore, InitializedStore}, MaxCalls)

InitRetrieval ==
    Start({EmptyStore, InitializedStore, SeededStore}, MaxCalls)

InitRacing == Start({EmptyStore, InitializedStore}, MaxRacingCalls)

\* the write paths of storage.ts, called one after the other
Next ==
    \/ Tick
    \/ \E c \in {1} :
          \/ initializeVectorDB(c)
          \/ indexPrdSections(c)
          \/ snapshotTodoState(c)
          \/ indexTodoSections(c)
          \/ reindexTodoSections(c)
          \/ storeJournalEntry(c)
          \/ storeSessionSummary(c)
          \/ ConnectResolves(c)
          \/ TableNamesResolves(c)
          \/ CreateTableResolves(c)
          \/ OpenTableResolves(c)
          \/ EmbeddingsResolve(c)
          \/ AddResolves(c)
          \/ DeleteResolves(c)

\* the operations of retrieval.ts, called one after the other; the four
\* read paths of a getContextBundle call race each other
NextRetrieval ==
    \E c \in {1} :
       \/ queryPrdSections(c)
       \/ getCurrentTodoState(c)
       \/ queryJournalEntries(c)
       \/ getRecentSessions(c)
       \/ getContextBundle(c)
       \/ isVectorDBAvailable(c)
       \/ \E i \in 1..4 :
             \/ GetDBResolves(c, i)
             \/ QueryOpenTableResolves(c, i)
             \/ QueryEmbeddingResolves(c, i)
             \/ SearchResolves(c, i)

\* read paths called one after the other, each with a config of its own
NextConfig ==
    \E c \in {1} :
       \/ queryPrdSectionsWithConfig(c)
       \/ getRecentSessionsWithConfig(c)
       \/ GetDBResolves(c, 1)
       \/ QueryOpenTableResolves(c, 1)
       \/ QueryEmbeddingResolves(c, 1)
       \/ SearchResolves(c, 1)

\* checklist snapshots written and read back by calls that race each other
NextSnapshot ==
    \/ Tick
    \/ \E c \in Callers :
          \/ initializeVectorDB(c)
          \/ snapshotTodoState(c)
          \/ getCurrentTodoState(c)
          \/ ConnectResolves(c)
          \/ TableNamesResolves(c)
          \/ CreateTableResolves(c)
          \/ OpenTableResolves(c)
          \/ AddResolves(c)
          \/ GetDBResolves(c, 1)
          \/ QueryOpenTableResolves(c, 1)
          \/ SearchResolves(c, 1)

\* a store in use: initialized and seeded before the process starts
InitReindex == Start({SeededStore}, MaxRacingCalls)

\* reindexTodoSections calls that race each other on a store in use
NextReindex ==
    \E c \in Callers :
       \/ reindexTodoSections(c)
       \/ ConnectResolves(c)
       \/ OpenTableResolves(c)
       \/ DeleteResolves(c)
       \/ EmbeddingsResolve(c)
       \/ AddResolves(c)

\* a process that calls a parser once: the parsers are pure functions
InitParse == Start({EmptyStore}, 1)

\* the parsers of storage.ts
NextParse ==
    \E c \in {1} :
       \/ parseMarkdownSections(c)

\* the checklist parser of storage.ts
NextChecklist ==
    \E c \in {1} :
       \/ parseTodoMarkdown(c)

\* the package.json utilities, called one after the other
InitMerge == StartCli(MergeProjects, NothingCreated, MaxMerges)

NextMerge ==
    \E c \in {1} :
       \/ mergePackageJson(c)
       \/ createPackageJson(c)
       \/ MergeAccessResolves(c)
       \/ MergeReadResolves(c)
       \/ MergeWriteResolves(c)
       \/ CreateAccessResolves(c)
       \/ CreateMkdirResolves(c)
       \/ CreateWriteResolves(c)
       \/ writePackageJson(c)
       \/ WritePackageJsonResolves(c)

\* runs of `mao adopt`
InitAdopt == StartCli(AdoptProjects, NothingCreated, MaxRuns)

NextAdopt ==
    \E c \in {1} :
       \/ adopt(c)
       \/ HasPackageJsonResolves(c)
       \/ InputResolves(c)
       \/ ConfirmResolves(c)
       \/ CopyTargetMkdirResolves(c)
       \/ CopyDirMkdirResolves(c)
       \/ CopyReaddirResolves(c)
       \/ CopyAccessResolves(c)
       \/ CopyMkdirResolves(c)
       \/ CopyReadFileResolves(c)
       \/ CopyWriteFileResolves(c)
       \/ CopyEmptyDirResolves(c)
       \/ CopyDefaultFileResolves(c)
       \/ MergeAccessResolves(c)
       \/ MergeReadResolves(c)
       \/ MergeWriteResolves(c)
       \/ CreateAccessResolves(c)
       \/ CreateMkdirResolves(c)
       \/ CreateWriteResolves(c)
       \/ InstallResolves(c)

\* the template utilities, called while another of them is in flight
InitCopy == StartCli(CopyProjects, NothingCreated, MaxCopies)

NextCopy ==
    \E c \in Callers :
       \/ copyTemplates(c)
       \/ copySubdirectory(c)
       \/ CopyTargetMkdirResolves(c)
       \/ CopyDirMkdirResolves(c)
       \/ CopyReaddirResolves(c)
       \/ CopyAccessResolves(c)
       \/ CopyMkdirResolves(c)
       \/ CopyReadFileResolves(c)
       \/ CopyWriteFileResolves(c)
       \/ CopyCopyFileResolves(c)
       \/ CopyEmptyDirResolves(c)
       \/ CopyDefaultFileResolves(c)

\* `mao create` and the package.json writers, called while another of them
\* is in flight
InitCreate ==
    StartCli(CopyProjects \ {NoDirectory}, NothingCreated, MaxCreates)

NextCreate ==
    \E c \in Callers :
       \/ create(c)
       \/ createPackageJson(c)
       \/ writePackageJson(c)
       \/ CopyTargetMkdirResolves(c)
       \/ CopyDirMkdirResolves(c)
       \/ CopyReaddirResolves(c)
       \/ CopyAccessResolves(c)
       \/ CopyMkdirResolves(c)
       \/ CopyReadFileResolves(c)
       \/ CopyWriteFileResolves(c)
       \/ CopyEmptyDirResolves(c)
       \/ CopyDefaultFileResolves(c)
       \/ CreateAccessResolves(c)
       \/ CreateMkdirResolves(c)
       \/ CreateWriteResolves(c)
       \/ WritePackageJsonResolves(c)
       \/ InstallResolves(c)

Spec == Init /\ [][Next]_vars

SpecRetrieval == InitRetrieval /\ [][NextRetrieval]_vars

SpecConfig == InitRetrieval /\ [][NextConfig]_vars

SpecSnapshot == InitRacing /\ [][NextSnapshot]_vars

SpecReindex == InitReindex /\ [][NextReindex]_vars

SpecParse == InitParse /\ [][NextParse]_vars

SpecChecklist == InitParse /\ [][NextChecklist]_vars

SpecMerge == InitMerge /\ [][NextMerge]_vars

SpecAdopt == InitAdopt /\ [][NextAdopt]_vars

SpecCopy == InitCopy /\ [][NextCopy]_vars

SpecCreate == InitCreate /\ [][NextCreate]_vars


----------------------------------------------------------------------------
(* Properties *)

\* this step ends call c of operation op (it returns or raises): the call
\* was in flight, or it is started by this step and runs to its end in it
Ends(c, op) ==
    /\ calls[c].pc # "done" \/ (budget' # budget /\ FirstFree(c))
    /\ calls'[c].op = op
    /\ calls'[c].pc = "done"

\* the rows of a table that are not the schema placeholder
Written(stored) == {i \in 1..Len(stored) : stored[i].id # "init"}

\* C1: retrieval.ts calls connect at most once in a process, whatever the
\* interleaving of the retrieval calls
C1_ConnectAtMostOnce == connectCalls <= 1

\* C2: a getCurrentTodoState call that reads a snapshots table holding rows
\* written by snapshotTodoState returns the one among them with the
\* greatest timestamp
C2_ReturnsLatestSnapshot ==
    [][\A c \in Callers :
          LET stored == rows[TODO_SNAPSHOTS]
              latest == {i \in Written(stored) :
                           \A j \in Written(stored) :
                              stored[j].timestamp <= stored[i].timestamp}
          IN  (/\ Ends(c, "getCurrentTodoState")
               /\ calls'[c].errs = <<"none">>
               /\ Written(stored) # {})
              => \E i \in latest :
                    calls'[c].res =
                       [tag |-> "TodoState", val |-> TodoStateOfRow(stored[i])]
      ]_vars

\* C3: while the snapshots table holds nothing but its placeholder row, a
\* getCurrentTodoState call that has returned has returned null
C3_NullBeforeFirstSnapshot ==
    \A c \in Callers :
       (/\ calls[c].op = "getCurrentTodoState"
        /\ calls[c].pc = "done"
        /\ TODO_SNAPSHOTS \in tableNames
        /\ Written(rows[TODO_SNAPSHOTS]) = {})
       => calls[c].res = NullResult


\* the rows of the todo_sections table whose sourceFile is f
RowsOfSourceFile(stored, f) ==
    Filter(stored, {r \in Range(stored) : r.sourceFile = f})

TodoSectionRecords(sections) ==
    [i \in 1..Len(sections) |-> TodoSectionRecord(sections[i])]

\* C4 as claimed: when reindexTodoSections(sections, f) returns normally the
\* rows of sourceFile f are exactly the given sections, for any sections
C4_ReindexExactlySections ==
    [][\A c \in Callers :
          (Ends(c, "reindexTodoSections") /\ calls'[c].out = "returned")
          => RowsOfSourceFile(rows'[TODO_SECTIONS], calls[c].arg.sourceFile)
                = TodoSectionRecords(calls[c].arg.sections)
      ]_vars

\* C4 as amended: when reindexTodoSections(sections, f), called with
\* sections that all have sourceFile f and with no other write in flight,
\* returns normally, the rows of sourceFile f are exactly the given
\* sections, one row per section, in order
C4_ReindexExactlyOwnSections ==
    [][\A c \in Callers :
          (/\ Ends(c, "reindexTodoSections")
           /\ calls'[c].out = "returned"
           /\ \A i \in 1..Len(calls[c].arg.sections) :
                 calls[c].arg.sections[i].sourceFile = calls[c].arg.sourceFile)
          => RowsOfSourceFile(rows'[TODO_SECTIONS], calls[c].arg.sourceFile)
                = TodoSectionRecords(calls[c].arg.sections)
      ]_vars

\* C4 witness: a reindex has returned normally and left two rows of
\* todo/tasks.md in a table that holds five rows: the placeholder, two
\* rows of the other file, and the rows it inserted after deleting
C4_Witness ==
    /\ calls[1].op = "reindexTodoSections"
    /\ calls[1].out = "returned"
    /\ Len(RowsOfSourceFile(rows[TODO_SECTIONS], "todo/tasks.md")) = 2
    /\ Len(RowsOfSourceFile(rows[TODO_SECTIONS], "todo/other.md")) = 2

\* a finished getContextBundle call in which both embeddings calls failed
\* and no access to the store did
EmbeddingsDown(k) ==
    /\ k.op = "getContextBundle"
    /\ k.pc = "done"
    /\ k.errs = <<"none", "none", "embed", "embed">>

SessionSummariesOfRows(stored) ==
    [i \in 1..Len(stored) |-> SessionSummaryOfRow(stored[i])]

\* C5: a getContextBundle call never raises, and when its embeddings calls
\* failed while the store, which holds session summaries and a snapshot,
\* answered, it returns recentSessions and todoState read from the store
\* and relevantPrd and journalEntries empty
C5_BundleSurvivesEmbeddingsFailure ==
    \A c \in Callers :
       /\ (calls[c].op = "getContextBundle" /\ calls[c].pc = "done")
          => calls[c].out = "returned"
       /\ (/\ EmbeddingsDown(calls[c])
           /\ Written(rows[SESSION_SUMMARIES]) # {}
           /\ Written(rows[TODO_SNAPSHOTS]) # {})
          => /\ calls[c].res.recentSessions =
                   ListResult(SessionSummariesOfRows(
                                  Take(rows[SESSION_SUMMARIES], 3)))
             /\ calls[c].res.recentSessions.val # <<>>
             /\ calls[c].res.todoState.tag = "TodoState"
             /\ calls[c].res.todoState.val
                   \in {TodoStateOfRow(r) : r \in Range(rows[TODO_SNAPSHOTS])}
             /\ calls[c].res.relevantPrd = ListResult(<<>>)
             /\ calls[c].res.journalEntries = ListResult(<<>>)

C5_Witness ==
    /\ EmbeddingsDown(calls[1])
    /\ Written(rows[SESSION_SUMMARIES]) # {}
    /\ Written(rows[TODO_SNAPSHOTS]) # {}

\* the part of the result of a finished retrieval call that read path i gave
Slice(k, i) ==
    IF k.op = "getContextBundle"
    THEN CASE i = 1 -> k.res.recentSessions
           [] i = 2 -> k.res.todoState
           [] i = 3 -> k.res.relevantPrd
           [] i = 4 -> k.res.journalEntries
    ELSE k.res

SliceFn(k, i) ==
    IF k.op = "getContextBundle" THEN BundleTasks("")[i].fn ELSE k.op

\* C6: every finished retrieval call has returned, not raised, and each of
\* its read paths in which connect, openTable, the embeddings call or the
\* search failed gave the empty value: [] for the three list queries, null
\* for getCurrentTodoState, false for isVectorDBAvailable
C6_RetrievalNeverRaises ==
    \A c \in Callers :
       (calls[c].op \in RetrievalOps /\ calls[c].pc = "done")
       => /\ calls[c].out = "returned"
          /\ \A i \in 1..Len(calls[c].errs) :
                calls[c].errs[i] # "none"
                => Slice(calls[c], i) =
                      (CASE SliceFn(calls[c], i) = "getCurrentTodoState"
                              -> NullResult
                         [] SliceFn(calls[c], i) = "isVectorDBAvailable"
                              -> BooleanResult(FALSE)
                         [] OTHER -> ListResult(<<>>))

\* C6 witness: a bundle has returned although the search of one of its
\* read paths and the connect of another failed
C6_Witness ==
    /\ calls[1].op = "getContextBundle"
    /\ calls[1].out = "returned"
    /\ \E i, j \in 1..4 :
          calls[1].errs[i] = "search" /\ calls[1].errs[j] = "connect"


\* the write paths that append what they are given
AppendOps ==
    {"indexPrdSections", "indexTodoSections", "snapshotTodoState",
     "storeJournalEntry", "storeSessionSummary"}

\* the rows call k is to append for the records passed to it (the id of a
\* snapshot row is read from the clock, at any time during the call)
RecordsPassed(k) ==
    IF k.op = "snapshotTodoState"
    THEN {<<SnapshotRecord(k.arg.state, t)>> : t \in 0..now}
    ELSE {BatchRecords(k)}

\* C7: the step in which a write path returns normally is the one that
\* appends every record passed to it to its table, and a write path in
\* which connect, openTable, the embeddings call or add failed raises
C7_WritesFailLoudly ==
    [][\A c \in Callers :
          (calls'[c].op \in AppendOps /\ Ends(c, calls'[c].op))
          => /\ calls'[c].out = "returned"
                => /\ TargetTable(calls[c].op) \in tableNames
                   /\ \E records \in RecordsPassed(calls[c]) :
                         rows'[TargetTable(calls[c].op)] =
                            rows[TargetTable(calls[c].op)] \o records
             /\ calls'[c].err # "none" => calls'[c].out = "raised"
      ]_vars

\* C7 witness: indexPrdSections has returned and its two records are in
\* the table, after the placeholder
C7_Witness ==
    /\ calls[1].op = "indexPrdSections"
    /\ calls[1].out = "returned"
    /\ Len(rows[PRD_SECTIONS]) = 3
    /\ Written(rows[PRD_SECTIONS]) = {2, 3}

Placeholders(stored) == {i \in 1..Len(stored) : stored[i].id = "init"}

\* C8: a step of an initializeVectorDB call made while the five tables
\* exist creates no table and changes no row, and the call ends there
\* without a createTable (it fails only if tableNames itself fails); every
\* table that exists holds exactly one placeholder row; and once a call
\* has returned normally the five tables exist
C8_InitializeIdempotent ==
    /\ [][\A c \in Callers :
             (/\ calls[c].op = "initializeVectorDB"
              /\ calls[c].pc \in {"connect", "tableNames"}
              /\ calls'[c] # calls[c]
              /\ tableNames = CollectionNames)
             => /\ UNCHANGED <<tableNames, rows>>
                /\ calls[c].pc = "tableNames"
                   => /\ calls'[c].pc = "done"
                      /\ \/ calls'[c].out = "returned"
                         \/ calls'[c].err = "tableNames"
         ]_vars
    /\ [](\A name \in CollectionNames :
             IF name \in tableNames
             THEN Cardinality(Placeholders(rows[name])) = 1
             ELSE rows[name] = <<>>)
    /\ [](\A c \in Callers :
             (calls[c].op = "initializeVectorDB" /\ calls[c].out = "returned")
             => tableNames = CollectionNames)

\* C8 witness: initializeVectorDB has returned normally on a store whose
\* tables already held rows written by other operations
C8_Witness ==
    /\ calls[1].op = "initializeVectorDB"
    /\ calls[1].out = "returned"
    /\ Written(rows[TODO_SNAPSHOTS]) # {}
    /\ Written(rows[PRD_SECTIONS]) # {}

\* C9: a snapshotTodoState call returns normally in the step that puts one
\* row, built from its state, after the rows of the snapshots table, and
\* no step of any call changes or removes a row of that table
C9_SnapshotAppendsOneRow ==
    [][/\ \A c \in Callers :
             (Ends(c, "snapshotTodoState") /\ calls'[c].out = "returned")
             => /\ Len(rows'[TODO_SNAPSHOTS]) = Len(rows[TODO_SNAPSHOTS]) + 1
                /\ rows'[TODO_SNAPSHOTS][Len(rows'[TODO_SNAPSHOTS])].timestamp
                      = calls[c].arg.state.timestamp
       /\ IsPrefix(rows[TODO_SNAPSHOTS], rows'[TODO_SNAPSHOTS])
      ]_vars

\* C9 witness: two snapshots of the same state, taken at the same clock
\* reading, are two rows
C9_Witness ==
    /\ Len(rows[TODO_SNAPSHOTS]) = 3
    /\ rows[TODO_SNAPSHOTS][2] = rows[TODO_SNAPSHOTS][3]
    /\ \E c \in Callers :
          calls[c].op = "snapshotTodoState" /\ calls[c].out = "returned"

\* C10: the rows written by snapshotTodoState have pairwise different ids
C10_SnapshotIdsUnique ==
    \A i, j \in Written(rows[TODO_SNAPSHOTS]) :
       i # j => rows[TODO_SNAPSHOTS][i].id # rows[TODO_SNAPSHOTS][j].id

\* C11: no step changes or removes a row of journal_entries or of
\* session_summaries, and the step in which storeJournalEntry or
\* storeSessionSummary returns normally puts exactly one row, built from
\* its argument, after the rows of its table and leaves the other alone
C11_JournalAndSessionsAppendOnly ==
    [][/\ IsPrefix(rows[JOURNAL_ENTRIES], rows'[JOURNAL_ENTRIES])
       /\ IsPrefix(rows[SESSION_SUMMARIES], rows'[SESSION_SUMMARIES])
       /\ \A c \in Callers :
             /\ (Ends(c, "storeJournalEntry") /\ calls'[c].out = "returned")
                => /\ rows'[JOURNAL_ENTRIES] =
                         rows[JOURNAL_ENTRIES]
                            \o <<JournalRecord(calls[c].arg.entry)>>
                   /\ rows'[SESSION_SUMMARIES] = rows[SESSION_SUMMARIES]
             /\ (Ends(c, "storeSessionSummary") /\ calls'[c].out = "returned")
                => /\ rows'[SESSION_SUMMARIES] =
                         rows[SESSION_SUMMARIES]
                            \o <<SessionRecord(calls[c].arg.summary)>>
                   /\ rows'[JOURNAL_ENTRIES] = rows[JOURNAL_ENTRIES]
      ]_vars

\* C11 witness: the same journal entry stored twice is two rows after the
\* placeholder, and a session summary stored after them left them alone
C11_Witness ==
    /\ Len(rows[JOURNAL_ENTRIES]) = 3
    /\ rows[JOURNAL_ENTRIES][2] = rows[JOURNAL_ENTRIES][3]
    /\ Len(rows[SESSION_SUMMARIES]) = 2
    /\ calls[1].op = "storeSessionSummary"
    /\ calls[1].out = "returned"

\* C12: no step of a retrieval.ts operation creates or deletes a table or
\* changes a row, whether the step succeeds or fails
C12_RetrievalNeverMutates ==
    [][tableNames' = tableNames /\ rows' = rows]_vars

\* C12 witness: a bundle has returned, one read path with the rows it
\* read, another after its openTable failed, and the store is as it was
C12_Witness ==
    /\ calls[1].op = "getContextBundle"
    /\ calls[1].out = "returned"
    /\ calls[1].errs[1] = "none"
    /\ calls[1].errs[2] = "openTable"
    /\ Len(calls[1].res.recentSessions.val) = 3
    /\ rows = SeededStore.rows
    /\ tableNames = CollectionNames

\* C13: on a store in which none of the five tables exists, an
\* isVectorDBAvailable call that has returned has returned false
C13_UninitializedNotAvailable ==
    \A c \in Callers :
       (/\ calls[c].op = "isVectorDBAvailable"
        /\ calls[c].pc = "done"
        /\ tableNames = {})
       => calls[c].res = BooleanResult(FALSE)

\* call k is a reindexTodoSections call between its delete and its insert
InGap(k) ==
    /\ k.op = "reindexTodoSections"
    /\ k.loc.inner
    /\ k.pc \in {"connect", "openTable", "embed", "add"}

\* C14: the step in which the delete of a reindexTodoSections(sections, f)
\* call with non-empty sections resolves leaves no row of f in the table
\* and the call unfinished, its insert still to come; and the steps the
\* call takes from there up to its add (connect, openTable, embeddings)
\* change no row, so the table stays as the delete left it across them
C14_ReindexLeavesGap ==
    [][\A c \in Callers :
          /\ (/\ calls[c].op = "reindexTodoSections"
              /\ calls[c].pc = "delete"
              /\ calls'[c] # calls[c]
              /\ calls'[c].out # "raised"
              /\ Len(calls[c].arg.sections) > 0)
             => /\ RowsOfSourceFile(rows'[TODO_SECTIONS],
                                    calls[c].arg.sourceFile) = <<>>
                /\ calls'[c].out = "pending"
                /\ InGap(calls'[c])
          /\ (/\ InGap(calls[c])
              /\ calls[c].pc # "add"
              /\ calls'[c] # calls[c])
             => rows' = rows
      ]_vars

\* C14 witness: the first call of the process, on a store that held a row
\* of todo/tasks.md, is reindexTodoSections(.., "todo/tasks.md"); its
\* delete has resolved, its records are embedded and its add is still to
\* come, and the table holds no row of todo/tasks.md while it still holds
\* the row of the other file
C14_Witness ==
    /\ budget = MaxRacingCalls - 1
    /\ InGap(calls[1])
    /\ calls[1].pc = "add"
    /\ calls[1].arg.sourceFile = "todo/tasks.md"
    /\ Len(calls[1].loc.records) = 2
    /\ RowsOfSourceFile(SeededStore.rows[TODO_SECTIONS], "todo/tasks.md") # <<>>
    /\ RowsOfSourceFile(rows[TODO_SECTIONS], "todo/tasks.md") = <<>>
    /\ RowsOfSourceFile(rows[TODO_SECTIONS], "todo/other.md") # <<>>

\* C15: a getRecentSessions(limit) call whose awaits all succeeded returns
\* at most limit summaries, each of them a stored row, and no session
\* summary written to the table and left out of the result has a later
\* timestamp than a summary that is returned
C15_RecentSessionsAreLatest ==
    [][\A c \in Callers :
          (Ends(c, "getRecentSessions") /\ calls'[c].errs = <<"none">>)
          => LET limit == calls[c].tasks[1].limit
                 stored == rows[SESSION_SUMMARIES]
                 result == calls'[c].res.val
                 leftOut == {i \in Written(stored) :
                               SessionSummaryOfRow(stored[i]) \notin Range(result)}
             IN  /\ Len(result) <= limit
                 /\ Range(result) \subseteq
                       Range(SessionSummariesOfRows(stored))
                 /\ \A i \in leftOut, j \in 1..Len(result) :
                       stored[i].timestamp <= result[j].timestamp
      ]_vars

\* a line that is a level 1-3 heading: one to three '#' at its start, then
\* white space, then text
IsHeading(line) ==
    \E h \in 1..3 : \E sp \in 1..Len(line) :
       /\ h + sp < Len(line)
       /\ \A i \in 1..h : line[i] = "#"
       /\ \A i \in (h + 1)..(h + sp) : line[i] \in WhiteSpace
       /\ line[h + sp + 1] \notin LineTerminators

\* the positions of the heading lines of a document
Headings(lines) == {i \in 1..Len(lines) : IsHeading(lines[i])}

\* the lines between heading i and the next of the headings, or the end
BodyOf(lines, headings, i) ==
    LET next == {j \in headings : j > i} \cup {Len(lines) + 1}
    IN  SubSeq(lines, i + 1, (CHOOSE j \in next : \A m \in next : j <= m) - 1)

\* some line of the body holds a character that is not white space
NonBlank(body) ==
    \E k \in 1..Len(body) : \E i \in 1..Len(body[k]) :
       body[k][i] \notin WhiteSpace

\* the headings whose section is emitted
Emitted(lines, headings) ==
    {i \in headings : NonBlank(BodyOf(lines, headings, i))}

\* the k-th smallest member of a set of numbers
Kth(S, k) == CHOOSE x \in S : Cardinality({y \in S : y < x}) = k - 1

\* C16: what parseMarkdownSections returns has one section for each
\* heading whose body holds more than white space, in document order, the
\* content of each being the trimmed body (never empty), and nothing else:
\* with no heading it is empty, and the lines before the first heading
\* are in no section
C16_OneSectionPerNonEmptyHeading ==
    \A c \in Callers :
       calls[c].op = "parseMarkdownSections"
       => LET lines == Split(calls[c].arg.content)
              headings == Headings(lines)
              emitted == Emitted(lines, headings)
              result == calls[c].res.val
          IN  /\ Len(result) = Cardinality(emitted)
              /\ \A k \in 1..Len(result) :
                    /\ result[k].content =
                          Trim(Join(BodyOf(lines, headings, Kth(emitted, k))))
                    /\ result[k].content # <<>>
              /\ headings = {} => result = <<>>

\* C16 witness: four lines, text, a heading without a body, a heading,
\* text, give one section
C16_Witness ==
    /\ calls[1].op = "parseMarkdownSections"
    /\ LET lines == Split(calls[1].arg.content)
       IN  /\ Len(lines) = 4
           /\ Headings(lines) = {2, 3}
           /\ NonBlank(<<lines[1]>>)
           /\ NonBlank(<<lines[4]>>)
    /\ Len(calls[1].res.val) = 1

\* C17: the sectionNumber of every section parseMarkdownSections returns,
\* and the number that ends its id, is the position of its heading among
\* all the heading lines of the document, so that as many headings, each
\* followed by text, give the sections 1, 2, .. in order
C17_NumberedByHeadingPosition ==
    \A c \in Callers :
       calls[c].op = "parseMarkdownSections"
       => LET lines == Split(calls[c].arg.content)
              headings == Headings(lines)
              emitted == Emitted(lines, headings)
              result == calls[c].res.val
              position(k) ==
                 Cardinality({j \in headings : j <= Kth(emitted, k)})
          IN  /\ Len(result) = Cardinality(emitted)
              /\ \A k \in 1..Len(result) :
                    /\ result[k].sectionNumber = ToString(position(k))
                    /\ result[k].id =
                          calls[c].arg.filename \o "-" \o ToString(position(k))
              /\ emitted = headings
                 => \A k \in 1..Len(result) :
                       result[k].sectionNumber = ToString(k)

\* C17 witness: the only section returned is numbered 2, the heading
\* before it having been dropped for its empty body
C17_Witness ==
    /\ calls[1].op = "parseMarkdownSections"
    /\ Len(calls[1].res.val) = 1
    /\ calls[1].res.val[1].sectionNumber = "2"
    /\ calls[1].res.val[1].id = "prd.md-2"


RECURSIVE ItemsOf(_)
\* the items of a sequence of sections, in order
ItemsOf(sections) ==
    IF sections = <<>> THEN <<>>
    ELSE Head(sections).items \o ItemsOf(Tail(sections))

RECURSIVE SumOfItemCounts(_)
\* the sum of the item counts of a sequence of sections
SumOfItemCounts(sections) ==
    IF sections = <<>> THEN 0
    ELSE Len(Head(sections).items) + SumOfItemCounts(Tail(sections))

\* C18: in the state parseTodoMarkdown returns, totalItems is the sum of
\* the item counts of its sections, completedItems is the number of items
\* with completed = true across its sections, and completedItems is at
\* most totalItems
C18_CountersMatchItems ==
    \A c \in Callers :
       calls[c].op = "parseTodoMarkdown"
       => LET state == calls[c].res.val
              items == ItemsOf(state.sections)
          IN  /\ state.totalItems = SumOfItemCounts(state.sections)
              /\ state.completedItems =
                    Cardinality({i \in 1..Len(items) : items[i].completed})
              /\ state.completedItems <= state.totalItems

\* C18 witness: a document of two sections of one item each, one of the
\* two items done
C18_Witness ==
    /\ calls[1].op = "parseTodoMarkdown"
    /\ LET state == calls[1].res.val
       IN  /\ Len(state.sections) = 2
           /\ Len(state.sections[1].items) = 1
           /\ Len(state.sections[2].items) = 1
           /\ state.totalItems = 2
           /\ state.completedItems = 1


\* round(100 * completed / total), the nearest integer and the upper one
\* of two equally near, and 0 for a total of 0
RoundedPercent(completed, total) ==
    IF total = 0 THEN 0
    ELSE CHOOSE p \in 0..100 :
            /\ 2 * total * p <= 200 * completed + total
            /\ 200 * completed + total < 2 * total * (p + 1)

\* C19: in the state parseTodoMarkdown returns, the completionPct of each
\* section is round(100 * completed / total) over the items of the
\* section and overallCompletionPct is the same over all items; each is
\* an integer from 0 to 100, and 0 when the total is 0
C19_PercentagesAreRounded ==
    \A c \in Callers :
       calls[c].op = "parseTodoMarkdown"
       => LET state == calls[c].res.val
              items == ItemsOf(state.sections)
              done(its) == Cardinality({i \in 1..Len(its) : its[i].completed})
          IN  /\ state.overallCompletionPct \in 0..100
              /\ state.overallCompletionPct =
                    RoundedPercent(done(items), Len(items))
              /\ \A k \in 1..Len(state.sections) :
                    /\ state.sections[k].completionPct \in 0..100
                    /\ state.sections[k].completionPct =
                          RoundedPercent(done(state.sections[k].items),
                                         Len(state.sections[k].items))


\* what parseTodoMarkdown takes each line of a checklist document for
LineKinds(lines) ==
    [i \in 1..Len(lines) |->
        IF SectionMatch(lines[i]).matched THEN "heading"
        ELSE IF TodoMatch(lines[i]).matched THEN "item"
        ELSE "other"]

\* the lines of a checklist document that are level-2/3 headings
TodoHeadings(kinds) == {i \in DOMAIN kinds : kinds[i] = "heading"}

\* the lines of a checklist document that are checklist items
ItemLines(kinds) == {i \in DOMAIN kinds : kinds[i] = "item"}

\* the item lines below the first heading
ItemLinesInSections(kinds) ==
    {i \in ItemLines(kinds) : \E h \in TodoHeadings(kinds) : h < i}

\* C20: the item lines ahead of the first level-2/3 heading are ignored by
\* parseTodoMarkdown: the sections are those of the headings, their items
\* are those of the item lines below the first heading, in order, and
\* totalItems and completedItems count these only
C20_ItemsBeforeFirstHeadingIgnored ==
    \A c \in Callers :
       calls[c].op = "parseTodoMarkdown"
       => LET lines == Split(calls[c].arg.content)
              state == calls[c].res.val
              items == ItemsOf(state.sections)
              kinds == LineKinds(lines)
              kept == ItemLinesInSections(kinds)
              \* the line of the k-th item
              lineOf == [k \in 1..Cardinality(kept) |-> lines[Kth(kept, k)]]
          IN  /\ Len(state.sections) = Cardinality(TodoHeadings(kinds))
              /\ Len(items) = Cardinality(kept)
              /\ \A k \in 1..Len(items) :
                    LET todoMatch == TodoMatch(lineOf[k])
                    IN  /\ items[k].description = Trim(todoMatch.description)
                        /\ items[k].completed = Completed(todoMatch.mark)
              /\ state.totalItems = Cardinality(kept)
              /\ state.completedItems =
                    Cardinality({k \in 1..Len(items) :
                                    Completed(TodoMatch(lineOf[k]).mark)})

\* C20 witness: a done item, a heading, and an item that is not done give
\* one section of one item and no completed item
C20_Witness ==
    /\ calls[1].op = "parseTodoMarkdown"
    /\ LET lines == Split(calls[1].arg.content)
           state == calls[1].res.val
       IN  /\ Len(lines) = 3
           /\ ItemLines(LineKinds(lines)) = {1, 3}
           /\ TodoHeadings(LineKinds(lines)) = {2}
           /\ Completed(TodoMatch(lines[1]).mark)
           /\ Len(state.sections) = 1
           /\ Len(state.sections[1].items) = 1
           /\ state.totalItems = 1
           /\ state.completedItems = 0


\* C21: the item ids of one state returned by parseTodoMarkdown are
\* pairwise distinct, and each is the sectionId of the section of the item,
\* a dash and the 1-based position of the item in its section
C21_ItemIdsDistinct ==
    \A c \in Callers :
       calls[c].op = "parseTodoMarkdown"
       => LET state == calls[c].res.val
              items == ItemsOf(state.sections)
          IN  /\ \A k \in 1..Len(state.sections) :
                    \A n \in 1..Len(state.sections[k].items) :
                       state.sections[k].items[n].id =
                          state.sections[k].sectionId \o <<"-">> \o Decimal(n)
              /\ \A i, j \in 1..Len(items) :
                    i # j => items[i].id # items[j].id


\* an adopt run that was told to overwrite: --force, or the user's yes to
\* 'MAO config (.claude/) already exists. Overwrite?'
Overwriting(k) ==
    /\ k.op = "adopt"
    /\ k.pc = "done"
    /\ k.out = "returned"
    /\ k.arg.force \/ k.loc.overwrite

\* C22: after an adopt run with --force, or one in which the user agreed
\* to overwrite, no template file holds the content it had before the run:
\* each one that is there holds the template's content
C22_ForceOverwritesExistingFiles ==
    \A c \in Callers :
       Overwriting(calls[c])
       => \A i \in 1..Len(TemplateFiles) :
             project[targetDir].files[TemplateFiles[i]].from \in {"none", "template"}


\* the keys of an optional section of package.json
KeysOf(section) ==
    IF section = <<>> THEN {} ELSE {section[1][i][1] : i \in 1..Len(section[1])}

\* the value of a key of an optional section
ValueIn(section, key) == ValueOf(section[1], key)

\* a section of package.json after a merge keeps what it had and has, for
\* each key that the list of added keys names, and for no other, a new
\* key of the wanted ones with its wanted value
MergedSection(before, after, wanted, added) ==
    /\ \A key \in KeysOf(before) :
          key \in KeysOf(after) /\ ValueIn(after, key) = ValueIn(before, key)
    /\ Range(added) = KeysOf(after) \ KeysOf(before)
    /\ \A key \in Range(added) :
          HasKey(wanted, key) /\ ValueIn(after, key) = ValueOf(wanted, key)

\* C23: a mergePackageJson call that reports no error changes the value of
\* no dependency, devDependency or script key that package.json has
\* already; it only adds the MAO keys that are missing, and
\* addedDependencies, addedDevDependencies and addedScripts name exactly
\* the keys it added
C23_MergeKeepsExistingValues ==
    [][\A c \in Callers :
          (/\ calls[c].op = "mergePackageJson"
           /\ Ends(c, "mergePackageJson")
           /\ calls'[c].res.val.error = <<>>)
          => LET before == project[targetDir].packageJson[1].json
                 after == project'[targetDir].packageJson[1].json
                 result == calls'[c].res.val
             IN  /\ MergedSection(before.dependencies, after.dependencies,
                                  MAO_DEPENDENCIES, result.addedDependencies)
                 /\ MergedSection(before.devDependencies,
                                  after.devDependencies,
                                  MAO_DEV_DEPENDENCIES,
                                  result.addedDevDependencies)
                 /\ MergedSection(before.scripts, after.scripts, MAO_SCRIPTS,
                                  result.addedScripts)
      ]_vars


\* package.json has every key of wanted in a section
HasEvery(section, wanted) ==
    \A i \in 1..Len(wanted) : wanted[i][1] \in KeysOf(section)

\* package.json has every MAO dependency, devDependency and script and a
\* type field
HasAllOfMao(json) ==
    /\ HasEvery(json.dependencies, MAO_DEPENDENCIES)
    /\ HasEvery(json.devDependencies, MAO_DEV_DEPENDENCIES)
    /\ HasEvery(json.scripts, MAO_SCRIPTS)
    /\ json.type # <<>>

\* none of these is the empty string
NoneEmpty(json) ==
    /\ \A section \in {json.dependencies, json.devDependencies, json.scripts} :
          \A key \in KeysOf(section) : ValueIn(section, key) # ""
    /\ json.type # <<"">>

\* a mergePackageJson call that has read a package.json for which ready
\* holds reports changed = false with all added lists empty and does not
\* write the file; and ready holds for the package.json that a merge
\* without error leaves
IdempotentWhere(ready(_)) ==
    \A c \in Callers :
       /\ (/\ calls[c].op = "mergePackageJson"
           /\ calls[c].pc = "merge-read"
           /\ project[targetDir].packageJson[1].valid
           /\ ready(project[targetDir].packageJson[1].json))
          => /\ calls'[c].pc = "done"
             /\ calls'[c].res.val.changed = FALSE
             /\ calls'[c].res.val.addedDependencies = <<>>
             /\ calls'[c].res.val.addedDevDependencies = <<>>
             /\ calls'[c].res.val.addedScripts = <<>>
             /\ project' = project
       /\ (/\ Ends(c, "mergePackageJson")
           /\ calls'[c].res.val.error = <<>>)
          => ready(project'[targetDir].packageJson[1].json)

\* C24: mergePackageJson is idempotent on a package.json that has every
\* MAO dependency, devDependency and script and a type field, in
\* particular on the one a successful merge leaves
C24_MergeIdempotentOnPresentKeys == [][IdempotentWhere(HasAllOfMao)]_vars

\* where none of these values is the empty string, mergePackageJson is
\* idempotent
MergeIdempotentOnNonEmptyValues ==
    [][LET Ready(json) == HasAllOfMao(json) /\ NoneEmpty(json)
       IN  IdempotentWhere(Ready)]_vars

\* a second merge, after a first one that added the MAO keys to the user's
\* dependencies, reports no change
SecondMergeChangesNothing ==
    /\ budget = 0
    /\ calls[1].op = "mergePackageJson"
    /\ calls[1].pc = "done"
    /\ calls[1].res.val.changed = FALSE
    /\ calls[1].res.val.error = <<>>
    /\ "express" \in KeysOf(project[targetDir].packageJson[1].json.dependencies)


\* the operations that embed and add a batch of sections
IndexOps == {"indexPrdSections", "indexTodoSections"}

\* C25: while an indexPrdSections or indexTodoSections call is in flight
\* the rows change in one step only, the one in which the call returns
\* normally, and that step puts the whole batch after the rows of the
\* collection; a call that raises, as it does when the embeddings call of
\* any section fails, has added no row
C25_BatchIsAllOrNothing ==
    [][\A c \in Callers :
          (calls[c].op \in IndexOps /\ calls[c].pc # "done")
          => /\ rows' # rows
                => /\ Ends(c, calls[c].op)
                   /\ calls'[c].out = "returned"
                   /\ rows' = [rows EXCEPT ![TargetTable(calls[c].op)] =
                                  @ \o BatchRecords(calls[c])]
             /\ (calls[c].pc = "embed" /\ calls'[c].pc = "add")
                => calls'[c].loc.records = BatchRecords(calls[c])
             /\ calls'[c].out = "raised" => rows' = rows
      ]_vars

\* C25 witness: an indexTodoSections call raised on its embeddings, and
\* the collection holds its placeholder only
C25_Witness ==
    /\ calls[1].op = "indexTodoSections"
    /\ calls[1].out = "raised"
    /\ calls[1].err = "embed"
    /\ TODO_SECTIONS \in tableNames
    /\ Written(rows[TODO_SECTIONS]) = {}

\* the first call of the process, alone on the seeded store, is
\* reindexTodoSections call c, and this step ends it with an error
FirstReindexRaises(c) ==
    /\ budget = MaxRacingCalls - 1
    /\ calls[c].op = "reindexTodoSections"
    /\ Ends(c, "reindexTodoSections")
    /\ calls'[c].out = "raised"

\* C26 as claimed: when reindexTodoSections(sections, f) raises, the rows of
\* sourceFile f in todo_sections are the rows that were there before the
\* call (stated for the first call of the process, whose store is the
\* seeded one)
C26_FailedReindexKeepsRows ==
    [][\A c \in Callers :
          FirstReindexRaises(c)
          => RowsOfSourceFile(rows'[TODO_SECTIONS], calls[c].arg.sourceFile)
             = RowsOfSourceFile(SeededStore.rows[TODO_SECTIONS],
                                calls[c].arg.sourceFile)
      ]_vars

\* C26 as the code has it: a reindexTodoSections(sections, f) call that
\* raises up to its delete (connect, openTable or the delete failed) leaves
\* every row as it was before the call; one that raises after its delete
\* resolved (connect, openTable, the embeddings or the add of the insert
\* failed) leaves todo_sections without any row of f, the rows of the other
\* source files as they were and none of the new sections inserted
C26_FailedReindexKeepsOrDeletes ==
    [][\A c \in Callers :
          FirstReindexRaises(c)
          => IF InGap(calls[c])
             THEN /\ RowsOfSourceFile(rows'[TODO_SECTIONS],
                                      calls[c].arg.sourceFile) = <<>>
                  /\ \A g \in SourceFiles \ {calls[c].arg.sourceFile} :
                        RowsOfSourceFile(rows'[TODO_SECTIONS], g)
                        = RowsOfSourceFile(SeededStore.rows[TODO_SECTIONS], g)
                  /\ Len(rows'[TODO_SECTIONS])
                     = Len(TableDelete(SeededStore.rows[TODO_SECTIONS],
                                       calls[c].arg.sourceFile))
             ELSE rows' = SeededStore.rows
      ]_vars

\* C26 witness: the first call of the process, a reindexTodoSections call,
\* raised on its embeddings or its add, and the row of todo/tasks.md the
\* seeded store held is gone while the row of todo/other.md is still there
C26_Witness ==
    /\ budget = MaxRacingCalls - 1
    /\ calls[1].op = "reindexTodoSections"
    /\ calls[1].out = "raised"
    /\ calls[1].err \in {"embed", "add"}
    /\ RowsOfSourceFile(SeededStore.rows[TODO_SECTIONS], "todo/tasks.md") # <<>>
    /\ RowsOfSourceFile(rows[TODO_SECTIONS], "todo/tasks.md") = <<>>
    /\ RowsOfSourceFile(rows[TODO_SECTIONS], "todo/other.md") # <<>>

\* the rows of the todo_sections table whose sourceFile is not f, the
\* schema placeholder among them
RowsOfOtherFiles(stored, f) ==
    Filter(stored, {r \in Range(stored) : r.sourceFile # f})

\* C27: no step of a reindexTodoSections(sections, f) call whose sections
\* all have sourceFile f changes a row of todo_sections whose sourceFile
\* differs from f, their order included, nor a row of the other four
\* collections, nor the set of tables
C27_ReindexFrame ==
    [][\A c \in Callers :
          (/\ calls[c].op = "reindexTodoSections"
           /\ calls[c].pc # "done"
           /\ calls'[c] # calls[c]
           /\ \A i \in 1..Len(calls[c].arg.sections) :
                 calls[c].arg.sections[i].sourceFile = calls[c].arg.sourceFile)
          => /\ RowsOfOtherFiles(rows'[TODO_SECTIONS], calls[c].arg.sourceFile)
                = RowsOfOtherFiles(rows[TODO_SECTIONS], calls[c].arg.sourceFile)
             /\ \A t \in CollectionNames \ {TODO_SECTIONS} : rows'[t] = rows[t]
             /\ tableNames' = tableNames
      ]_vars

\* C27 witness: the second call of the process, a reindexTodoSections call,
\* returned; todo_sections holds the row of todo/other.md the first call
\* wrote, in its place, and after it the two rows of todo/tasks.md the
\* reindex inserted
C27_Witness ==
    /\ budget = MaxCalls - 2
    /\ calls[1].op = "reindexTodoSections"
    /\ calls[1].out = "returned"
    /\ LET stored == rows[TODO_SECTIONS]
           ids == [i \in 1..Len(stored) |-> stored[i].id]
       IN  ids = <<"init", "todo/other.md-1", "todo/tasks.md-1",
                   "todo/tasks.md-2">>

\* C28 as claimed: initializeVectorDB calls that race each other all
\* complete without error, so none of them ever awaits a createTable that
\* the store rejects because another call created the table first; and every
\* table that exists holds one placeholder row
C28_RacingInitializeBothComplete ==
    /\ \A c \in Callers :
          (calls[c].op = "initializeVectorDB" /\ calls[c].pc = "createTable")
          => CreateTableSucceeds(COLLECTIONS[calls[c].loc.idx], tableNames)
    /\ \A name \in tableNames :
          Cardinality(Placeholders(rows[name])) = 1

\* the records of a list a read path returned that are schema placeholders
PlaceholdersIn(r) ==
    IF r.tag = "list" THEN {i \in 1..Len(r.val) : r.val[i].id = "init"}
    ELSE {}

\* C29 as claimed: no record that queryPrdSections, queryJournalEntries or
\* getRecentSessions returns, and no record of the recentSessions,
\* relevantPrd and journalEntries of a context bundle, is the schema
\* placeholder row (id 'init') that initializeVectorDB created
C29_NoPlaceholderReturned ==
    \A c \in Callers :
       (calls[c].pc = "done" /\ calls[c].out = "returned")
       => CASE calls[c].op \in {"queryPrdSections", "queryJournalEntries",
                                "getRecentSessions"} ->
                 PlaceholdersIn(calls[c].res) = {}
            [] calls[c].op = "getContextBundle" ->
                 /\ PlaceholdersIn(calls[c].res.recentSessions) = {}
                 /\ PlaceholdersIn(calls[c].res.relevantPrd) = {}
                 /\ PlaceholdersIn(calls[c].res.journalEntries) = {}
            [] OTHER -> TRUE

\* C30 as claimed: a queryPrdSections or getRecentSessions call whose
\* awaits all succeeded returns what its search yields on the store at the
\* dbPath of the config it was called with, whatever the configs of the
\* calls made before it in the process
C30_ReadsStoreOfItsConfig ==
    [][\A c \in Callers :
          (/\ calls[c].op \in {"queryPrdSections", "getRecentSessions"}
           /\ Ends(c, calls[c].op)
           /\ calls'[c].errs = <<"none">>)
          => LET t == calls[c].tasks[1]
                 store == StoreAt(Connected(t.config))
             IN  calls'[c].res
                 = QueryResult(t.fn, store.rows[QueryTable(t.fn)],
                               t.query, t.limit)
      ]_vars


============================================================================
